---- MODULE Spec2Model ----
(***************************************************************************)
(* Ledger of AgoraAI (src/src/blockchain/core.py): Block, its content      *)
(* hash, and BlockchainManager with its pending pool, proof-of-work        *)
(* mining and the background auto-miner, run as asyncio coroutines on one  *)
(* event loop.                                                             *)
(***************************************************************************)
EXTENDS Integers, Sequences, FiniteSets, TLC

\* ---------------------------------------------------------------- bounds
\* Records created by record_transaction / update_transaction (uuid4 ids).
MaxTx == 5
\* Blocks in the chain, the genesis block included.
MaxChain == 3
\* update_transaction calls among them.
MaxUpdates == 1
\* Message.create calls in a run (envelopes published by callers, replies).
MaxMessages == 3
\* Callback registrations held by the broker at one time.
MaxSubscriptions == 2

\* ------------------------------------------------------ program constants
\* hexdigest(): characters are hexadecimal digits.
HexRadix == 16
\* hexdigest(): the length of a digest in hex characters; SHA-256's 64 are
\* scaled down to 2, which keeps every difficulty up to 2 satisfiable.
HashLen == 2
\* self.mining_reward = 1.0
MiningReward == 1
\* _mine_pending_transactions: if len(self.pending_transactions) >= 5
MinPoolSize == 5

\* Values the clock is read at.
ClockValues == 0..1
\* BlockchainManager(difficulty=...): the tests and examples construct with 2.
Difficulties == 0..2
\* The agents that exchange envelopes; each may own a MessageHandler.
Agents == {"agent1", "agent2"}
Handlers == Agents

\* Payload objects handed to record_transaction; .data is their __dict__.
Payloads == {"contract"}
\* Payloads that are plain dicts, as the tests pass them: a dict has no __dict__.
MappingPayloads == {"mapping"}
\* miner_address of a manual mine_block call, and of the auto-miner.
ManualMiners == {"m1"}
AutoMiner == "system"
Miners == ManualMiners \cup {AutoMiner}

VARIABLES
    chain,                  \* self.chain: sequence of Block
    pending_transactions,   \* self.pending_transactions
    difficulty,             \* self.difficulty
    now,                    \* the last reading of datetime.now().timestamp()
    nextId,                 \* the next uuid4()
    updates,                \* update_transaction calls made so far
    pc,                     \* per mine_block call: "idle" or "pow" (in the search loop)
    block,                  \* per mine_block call: the local draft block
    result,                 \* per mine_block call: the value last returned
    recorded,               \* every record created by record_transaction/update_transaction
    returned,               \* what the last record_transaction/update_transaction call returned or raised
    lastAudit,              \* ChainValidator: the chain handed to the last validate_chain call,
                            \* the validator's clock reading, the result, and whether the
                            \* call before it was handed the same chain
    history,                \* the last get_transaction_history call: its argument and its result
    contract_state,         \* SmartContract: self.contract.state
    events,                 \* SmartContract: self.events
    verdict,                \* the last validate_state_transition / validate_transition call
    updated,                \* what the last update_state call returned
    message,                \* protocol: the envelope a sender holds
    wire,                   \* protocol: its JSON text, once encoded
    decoded,                \* protocol: the envelope the receiver built from the text
    subscribers,            \* MessageBroker.subscribers: topics in insertion order, each with
                            \* its list of callbacks
    message_queue,          \* MessageBroker.message_queue
    message_history,        \* MessageBroker.message_history: per sender, its envelopes
    loop,                   \* _process_queue: where it is, its local message and response
    tasks,                  \* the callback tasks _notify_subscribers created and something
                            \* still holds, in creation order
    logged,                 \* logging.error calls of the dispatch loop
    nextMessage,            \* the next uuid4() of Message.create
    enqueued,               \* every envelope put on the queue, in put order
    unsubscribed,           \* the callbacks whose latest subscribe/unsubscribe call took a
                            \* registration away
    queried,                \* the last get_message_history call: its arguments and its result
    pending_requests,       \* MessageHandler.pending_requests, per handler: id -> future
    calls,                  \* send_request calls: request id -> where the call is, its result
    connections,            \* NetworkNode.connections: the peer ids, in insertion order
    peer_info,              \* NetworkNode.peer_info: peer id -> host and port
    readers,                \* the peers a _handle_peer_messages task is reading from
    netcall                 \* the last connect_to_peer / broadcast_message call and how it ended

\* The state outside the ledger manager.
contract == <<contract_state, events, verdict, updated>>
protocol == <<message, wire, decoded>>
broker == <<subscribers, message_queue, message_history, loop, tasks, logged, nextMessage,
            enqueued, unsubscribed, queried>>
correlator == <<pending_requests, calls>>
network == <<connections, peer_info, readers, netcall>>
others == <<lastAudit, history, contract, protocol, broker, correlator, network>>

vars == <<chain, pending_transactions, difficulty, now, nextId, updates, pc, block, result,
          recorded, returned, others>>

\* ------------------------------------------------------------------ hash
Pow(b, e) == IF e = 0 THEN 1 ELSE LET RECURSIVE P(_)
                                      P(k) == IF k = 0 THEN 1 ELSE b * P(k - 1)
                                  IN P(e)

\* Number of distinct hex strings of HashLen characters.
HashMod == Pow(HexRadix, HashLen)

\* previous_hash="0" of the genesis block: the one-character string "0".
ZeroHash == [hex |-> <<0>>, of |-> <<>>]

\* The hex characters of a digest read as a number.
RECURSIVE HexValue(_)
HexValue(hex) ==
    IF hex = <<>> THEN 0
    ELSE HexValue(SubSeq(hex, 1, Len(hex) - 1)) * HexRadix + hex[Len(hex)]

AddrCode(a) == CASE a = "m1" -> 1 [] a = "system" -> 2 [] a = "network" -> 3 [] OTHER -> 4

\* json.dumps of one transaction record: a number that depends on every field.
TxCode(tx) ==
    IF "from" \in DOMAIN tx
    THEN 11 + AddrCode(tx.from) * 5 + AddrCode(tx.to) * 3 + tx.amount
    ELSE IF "id" \in DOMAIN tx
    THEN tx.id * 3 + tx.timestamp * 5 + (IF tx.data = "contract" THEN 1 ELSE 2)
         + (IF "type" \in DOMAIN tx THEN 9 ELSE 0)
    ELSE 29

\* json.dumps of the transactions list: order matters.
RECURSIVE TxsCode(_)
TxsCode(txs) ==
    IF txs = <<>> THEN 0
    ELSE TxsCode(SubSeq(txs, 1, Len(txs) - 1)) * 3 + TxCode(txs[Len(txs)])

\* The HashLen hex characters of n, most significant first.
HexDigits(n) ==
    [k \in 1..HashLen |-> (n \div Pow(HexRadix, HashLen - k)) % HexRadix]

\* Block.calculate_hash: sha256 of the sort_keys JSON of the five fields.
\* SHA-256 is taken collision-free: a digest carries its preimage, so two
\* digests are equal exactly when the hashed fields are equal; its hex
\* characters are a fixed mix of the five fields.
CalculateHash(index, timestamp, transactions, previous_hash, nonce) ==
    [hex |-> HexDigits((index * 31 + timestamp * 17 + TxsCode(transactions) * 7
                        + HexValue(previous_hash.hex) * 13
                        + nonce * (HashMod \div HexRadix + 1) + 77) % HashMod),
     of  |-> <<index, timestamp, transactions, previous_hash, nonce>>]

\* block.calculate_hash() on a Block object.
BlockHash(b) == CalculateHash(b.index, b.timestamp, b.transactions, b.previous_hash, b.nonce)

\* Block(...): dataclass construction, nonce defaults to 0, __post_init__ sets hash.
NewBlock(index, timestamp, transactions, previous_hash) ==
    [index |-> index, timestamp |-> timestamp, transactions |-> transactions,
     previous_hash |-> previous_hash, nonce |-> 0,
     hash |-> CalculateHash(index, timestamp, transactions, previous_hash, 0)]

\* (a bug) the target is one zero short: "0" * (d - 1).
StartsWithZerosShort(h, d) ==
    /\ d - 1 <= Len(h.hex)
    /\ \A k \in 1..(d - 1) : h.hex[k] = 0

\* hash.startswith("0" * d)
StartsWithZeros(h, d) ==
    /\ d <= Len(h.hex)
    /\ \A k \in 1..d : h.hex[k] = 0

NoBlock == [index |-> -1]

\* No mine_block call has returned yet.
NoResult == [index |-> -2]

\* Outcomes of a record_transaction/update_transaction call: the id returned, None
\* returned, an exception raised; NotCalled before the first call.
NotCalled == [called |-> FALSE]
ReturnedId(i) == [id |-> i]
ReturnedNone == [none |-> TRUE]
Raised(e) == [raised |-> e]

\* get_transaction_history has not been called.
NoHistory == [called |-> FALSE]

\* transaction_id = None, the default argument; ids proper are 1, 2, ...
NoId == 0

\* No validation of a state transition has been asked for; no update_state call
\* has returned.
NoVerdict == [called |-> FALSE]
NoUpdate == [called |-> FALSE]

\* No envelope; no text.
NoMessage == [exists |-> FALSE]
NoWire == [exists |-> FALSE]

\* No validate_chain call has been made.
NoAudit == [chain |-> <<>>, time |-> -1, result |-> FALSE, repeated |-> FALSE]

\* --------------------------------------------------------------- manager
\* create_genesis_block
GenesisBlock(timestamp) == NewBlock(0, timestamp, <<>>, ZeroHash)

\* (a bug) self.chain[0] for self.chain[-1].
GetFirstBlock(c) == c[1]

\* get_latest_block: self.chain[-1]
GetLatestBlock(c) == c[Len(c)]

\* (a bug) index=len(self.chain) + 1.
NextIndexOffByOne(c) == Len(c) + 1

\* mine_block: index=len(self.chain)
NextIndex(c) == Len(c)

\* (a bug) self.chain.insert(0, block).
PrependBlock(c, b) == <<b>> \o c

\* mine_block: self.chain.append(block)
AppendBlock(c, b) == Append(c, b)

\* (a bug) the pool is copied without its first record: pending_transactions[1:].
SnapshotTail(p) == Tail(p)

\* mine_block: transactions=self.pending_transactions[:]
Snapshot(p) == p

\* (a bug) sender and receiver of the reward swapped.
RewardRecordSwapped(miner_address) ==
    [from |-> miner_address, to |-> "network", amount |-> MiningReward]

\* The reward record mine_block leaves in the pool.
RewardRecord(miner_address) ==
    [from |-> "network", to |-> miner_address, amount |-> MiningReward]

\* (a bug) an await inside the search loop: the search yields at every iteration.
PowAwaits == TRUE

\* The while loop of mine_block has no await: the search never yields the
\* event loop.
PowYields == FALSE

\* The event loop can run a step of task t: no other coroutine is in the
\* middle of its body.
CanRun(t) == \A o \in Miners \ {t} : pc[o] = "idle" \/ PowYields

\* The components other than the ledger manager, constructed and not yet used.
AuditIdle ==
    /\ lastAudit = NoAudit
    /\ history = NoHistory

ContractIdle ==
    /\ contract_state = "PENDING"
    /\ events = <<>>
    /\ verdict = NoVerdict
    /\ updated = NoUpdate

ProtocolIdle ==
    /\ message = NoMessage
    /\ wire = NoWire
    /\ decoded = NoMessage

\* MessageBroker.__init__: nothing subscribed, queued or recorded, the dispatch
\* loop waiting in get(); MessageHandler.__init__: no pending request.
BrokerIdle ==
    /\ subscribers = <<>>
    /\ message_queue = <<>>
    /\ message_history = <<>>
    /\ loop = [pc |-> "get", message |-> NoMessage, response |-> NoMessage]
    /\ tasks = <<>>
    /\ logged = 0
    /\ nextMessage = 1
    /\ enqueued = <<>>
    /\ unsubscribed = {}
    /\ queried = NotCalled
    /\ pending_requests = [h \in Handlers |-> <<>>]
    /\ calls = <<>>

\* NetworkNode.__init__: no connection, no peer known.
NetworkIdle ==
    /\ connections = <<>>
    /\ peer_info = <<>>
    /\ readers = {}
    /\ netcall = NotCalled

OthersIdle == AuditIdle /\ ContractIdle /\ ProtocolIdle /\ BrokerIdle /\ NetworkIdle

Init ==
    /\ now = 0
    /\ difficulty \in Difficulties
    /\ chain = <<GenesisBlock(now)>>
    /\ pending_transactions = <<>>
    /\ nextId = 1
    /\ updates = 0
    /\ pc = [m \in Miners |-> "idle"]
    /\ block = [m \in Miners |-> NoBlock]
    /\ result = [m \in Miners |-> NoBlock]
    /\ recorded = {}
    /\ returned = NotCalled
    /\ OthersIdle

\* transaction.__dict__: objects have one, a plain dict has not (AttributeError).
HasDict(p) == p \in Payloads

\* datetime.now().timestamp(): a reading t of the wall clock, not before the
\* last reading; the clock is observed only where the code reads it.
ClockReadings == {t \in ClockValues : t >= now}

\* record_transaction(transaction)
RecordTransaction(p) ==
    /\ CanRun("client")
    /\ nextId <= MaxTx
    /\ IF HasDict(p)
       THEN /\ \E t \in ClockReadings :
                  LET tx_data == [id |-> nextId, timestamp |-> t, data |-> p]
                  IN /\ pending_transactions' = Append(pending_transactions, tx_data)
                     /\ recorded' = recorded \cup {tx_data}
                     /\ now' = t
                     /\ returned' = ReturnedId(tx_data.id)
            /\ nextId' = nextId + 1
       ELSE /\ returned' = Raised("AttributeError")
            /\ UNCHANGED <<pending_transactions, recorded, now, nextId>>
    /\ UNCHANGED <<chain, difficulty, updates, pc, block, result, others>>

\* update_transaction(transaction)
UpdateTransaction(p) ==
    /\ CanRun("client")
    /\ nextId <= MaxTx
    /\ updates < MaxUpdates
    /\ IF HasDict(p)
       THEN /\ \E t \in ClockReadings :
                  LET tx_data == [id |-> nextId, timestamp |-> t, type |-> "update", data |-> p]
                  IN /\ pending_transactions' = Append(pending_transactions, tx_data)
                     /\ recorded' = recorded \cup {tx_data}
                     /\ now' = t
                     /\ returned' = ReturnedNone
            /\ nextId' = nextId + 1
       ELSE /\ returned' = Raised("AttributeError")
            /\ UNCHANGED <<pending_transactions, recorded, now, nextId>>
    /\ updates' = updates + 1
    /\ UNCHANGED <<chain, difficulty, pc, block, result, others>>

\* (a bug) mine_block without the empty-pool return: it clears the pool and
\* reports a block.
MineEmptyClears(m) ==
    /\ pc[m] = "idle"
    /\ CanRun(m)
    /\ pending_transactions = <<>>
    /\ pending_transactions' = <<RewardRecord(m)>>
    /\ result' = [result EXCEPT ![m] = GetLatestBlock(chain)]
    /\ UNCHANGED <<chain, difficulty, now, nextId, updates, pc, block, recorded, returned, others>>

\* mine_block, lines 71-72: empty pool, return None.
MineEmpty(m) ==
    /\ pc[m] = "idle"
    /\ CanRun(m)
    /\ pending_transactions = <<>>
    /\ result' = [result EXCEPT ![m] = NoBlock]
    /\ UNCHANGED <<chain, pending_transactions, difficulty, now, nextId, updates, pc, block, recorded, returned, others>>

\* mine_block, lines 74-79: build the draft block from a copy of the pool.
MineStart(m) ==
    /\ pc[m] = "idle"
    /\ CanRun(m)
    /\ pending_transactions # <<>>
    /\ Len(chain) < MaxChain
    /\ \E t \in ClockReadings :
          /\ block' = [block EXCEPT ![m] =
                          NewBlock(NextIndex(chain), t, Snapshot(pending_transactions),
                                   GetLatestBlock(chain).hash)]
          /\ now' = t
    /\ pc' = [pc EXCEPT ![m] = "pow"]
    /\ UNCHANGED <<chain, pending_transactions, difficulty, nextId, updates, result, recorded, returned, others>>

\* mine_block, lines 81-83: one iteration of the search loop.
PowStep(m) ==
    /\ pc[m] = "pow"
    /\ CanRun(m)
    /\ ~StartsWithZeros(block[m].hash, difficulty)
    /\ block[m].nonce < HashMod
    /\ LET b == [block[m] EXCEPT !.nonce = @ + 1]
       IN block' = [block EXCEPT ![m] = [b EXCEPT !.hash = BlockHash(b)]]
    /\ UNCHANGED <<chain, pending_transactions, difficulty, now, nextId, updates, pc, result, recorded, returned, others>>

\* (a bug) mine_block that appends the reward record to the pool instead of
\* replacing the pool with it.
MineAppendKeepsPool(m) ==
    /\ pc[m] = "pow"
    /\ CanRun(m)
    /\ StartsWithZeros(block[m].hash, difficulty)
    /\ chain' = AppendBlock(chain, block[m])
    /\ pending_transactions' = Append(pending_transactions, RewardRecord(m))
    /\ result' = [result EXCEPT ![m] = block[m]]
    /\ block' = [block EXCEPT ![m] = NoBlock]
    /\ pc' = [pc EXCEPT ![m] = "idle"]
    /\ UNCHANGED <<difficulty, now, nextId, updates, recorded, returned, others>>

\* (a bug) mine_block that leaves the pool empty, without the reward record.
MineAppendNoReward(m) ==
    /\ pc[m] = "pow"
    /\ CanRun(m)
    /\ StartsWithZeros(block[m].hash, difficulty)
    /\ chain' = AppendBlock(chain, block[m])
    /\ pending_transactions' = <<>>
    /\ result' = [result EXCEPT ![m] = block[m]]
    /\ block' = [block EXCEPT ![m] = NoBlock]
    /\ pc' = [pc EXCEPT ![m] = "idle"]
    /\ UNCHANGED <<difficulty, now, nextId, updates, recorded, returned, others>>

\* mine_block, lines 85-93: the search is over; append, reset the pool, return.
MineAppend(m) ==
    /\ pc[m] = "pow"
    /\ CanRun(m)
    /\ StartsWithZeros(block[m].hash, difficulty)
    /\ chain' = AppendBlock(chain, block[m])
    /\ pending_transactions' = <<RewardRecord(m)>>
    /\ result' = [result EXCEPT ![m] = block[m]]
    /\ block' = [block EXCEPT ![m] = NoBlock]
    /\ pc' = [pc EXCEPT ![m] = "idle"]
    /\ UNCHANGED <<difficulty, now, nextId, updates, recorded, returned, others>>

\* A caller's mine_block(miner_address) starts.
MineBlock(m) == MineStart(m)

\* (a bug) _mine_pending_transactions without the size test: it mines whatever
\* is pending.
AutoMineAnyPool == MineStart(AutoMiner)

\* _mine_pending_transactions wakes from its sleep and finds the pool large enough.
AutoMine ==
    /\ Len(pending_transactions) >= MinPoolSize
    /\ MineStart(AutoMiner)

Next ==
    \/ \E p \in Payloads : RecordTransaction(p)
    \/ \E p \in Payloads : UpdateTransaction(p)
    \/ \E m \in ManualMiners : MineEmpty(m)
    \/ \E m \in ManualMiners : MineBlock(m)
    \/ AutoMine
    \/ \E m \in Miners : PowStep(m)
    \/ \E m \in Miners : MineAppend(m)

Spec == Init /\ [][Next]_vars

\* --------------------------------------------- the ledger as its callers see it
\* The manager right after construction, before any call has returned, at the
\* difficulties where a search is short.
InitCalls ==
    /\ now = 0
    /\ difficulty \in {d \in Difficulties : d <= 1}
    /\ chain = <<GenesisBlock(now)>>
    /\ pending_transactions = <<>>
    /\ nextId = 1
    /\ updates = 0
    /\ pc = [m \in Miners |-> "idle"]
    /\ block = [m \in Miners |-> NoBlock]
    /\ result = [m \in Miners |-> NoResult]
    /\ recorded = {}
    /\ returned = NotCalled
    /\ OthersIdle

\* Callers hand over objects and, as the tests do, plain dicts.
NextCalls ==
    \/ Next
    \/ \E p \in MappingPayloads : RecordTransaction(p)
    \/ \E p \in MappingPayloads : UpdateTransaction(p)

SpecCalls == InitCalls /\ [][NextCalls]_vars

\* ---------------------------------------------------------- the auto-miner
\* The event loop keeps scheduling its tasks: the auto-miner wakes again after
\* every sleep, and a search that has started runs to its append (mine_block
\* has no await, so nothing can suspend it).
Fairness ==
    /\ WF_vars(AutoMine)
    /\ \A m \in Miners : WF_vars(PowStep(m)) /\ WF_vars(MineAppend(m))

SpecAuto == InitCalls /\ [][Next]_vars /\ Fairness

\* ------------------------------------------------------------ the audit path
\* TransactionValidator.required_fields["transaction"]
RequiredFields == {"id", "timestamp", "type", "data"}

\* (a bug) validate_transaction with the comparison turned round: it rejects a
\* timestamp that is in the past of the validator's clock.
ValidateTransactionPast(tx, t) ==
    /\ RequiredFields \subseteq DOMAIN tx
    /\ tx.timestamp \in Int
    /\ ~(tx.timestamp < t)

\* TransactionValidator.validate_transaction, datetime.now() reading t.
ValidateTransaction(tx, t) ==
    /\ RequiredFields \subseteq DOMAIN tx
    /\ tx.timestamp \in Int
    /\ ~(tx.timestamp > t)

\* ChainValidator._validate_block_structure
ValidateBlockStructure(b) ==
    {"index", "timestamp", "transactions", "previous_hash", "nonce", "hash"} \subseteq DOMAIN b

\* ChainValidator._validate_block_hash for a validator of difficulty d
ValidateBlockHash(b, d) ==
    /\ b.hash = CalculateHash(b.index, b.timestamp, b.transactions, b.previous_hash, b.nonce)
    /\ StartsWithZeros(b.hash, d)

\* ChainValidator._validate_block_sequence
ValidateBlockSequence(current, previous) ==
    /\ ~(current.index # previous.index + 1)
    /\ ~(current.timestamp <= previous.timestamp)

\* ChainValidator.validate_block
ValidateBlock(b, previous_hash, d, t) ==
    /\ ValidateBlockStructure(b)
    /\ ~(b.previous_hash # previous_hash)
    /\ ValidateBlockHash(b, d)
    /\ \A k \in 1..Len(b.transactions) : ValidateTransaction(b.transactions[k], t)

\* ChainValidator.validate_chain: range(1, len(chain)), the first block is only
\* ever the predecessor.
ValidateChain(c, d, t) ==
    \A i \in 2..Len(c) :
        /\ ValidateBlock(c[i], c[i - 1].hash, d, t)
        /\ ValidateBlockSequence(c[i], c[i - 1])

\* chain[i].transactions.append({"invalid": "transaction"}), as the test does:
\* block i altered after its hash was computed.
AppendInvalid(c, i) ==
    [c EXCEPT ![i].transactions = Append(@, [invalid |-> "transaction"])]

\* What an auditor hands to validate_chain: the manager's chain, in the dict form
\* the validator reads (a block's fields under their names), or that chain with
\* one block altered.
AuditSubjects == {chain} \cup {AppendInvalid(chain, i) : i \in 1..Len(chain)}

\* validate_chain(c) by a ChainValidator of the manager's difficulty whose clock
\* reads t; the validator's clock is its own, not the manager's.
Audit(c, t) ==
    /\ CanRun("auditor")
    /\ lastAudit' = [chain |-> c, time |-> t, result |-> ValidateChain(c, difficulty, t),
                     repeated |-> (lastAudit.chain = c)]
    /\ UNCHANGED <<chain, pending_transactions, difficulty, now, nextId, updates, pc, block,
                   result, recorded, returned, history, contract, protocol, broker,
                   correlator, network>>

NextAudit ==
    \/ Next
    \/ \E c \in AuditSubjects : \E t \in ClockValues : Audit(c, t)

SpecAudit == InitCalls /\ [][NextAudit]_vars

\* ------------------------------------------------------- transaction history
\* `not transaction_id`: None (and any other falsy value) selects every record.
Falsy(q) == q = NoId

\* tx.get("id"): None for a record without an id (the mining reward); None never
\* equals a truthy transaction_id.
TxGetId(tx) == IF "id" \in DOMAIN tx THEN tx.id ELSE NoId

\* (a bug) the inner loop of get_transaction_history without the id test.
BlockHistoryUnfiltered(b, q) ==
    [k \in 1..Len(b.transactions) |->
        [transaction |-> b.transactions[k], block_index |-> b.index, timestamp |-> b.timestamp]]

\* The inner loop of get_transaction_history over one block.
BlockHistory(b, q) ==
    LET Keep(tx) == Falsy(q) \/ TxGetId(tx) = q
        txs == SelectSeq(b.transactions, Keep)
    IN [k \in 1..Len(txs) |->
           [transaction |-> txs[k], block_index |-> b.index, timestamp |-> b.timestamp]]

RECURSIVE HistoryFrom(_, _, _)
\* The outer loop of get_transaction_history from block i on.
HistoryFrom(c, q, i) ==
    IF i > Len(c) THEN <<>> ELSE BlockHistory(c[i], q) \o HistoryFrom(c, q, i + 1)

\* The transaction ids a caller asks about: none, an id issued, an id never issued.
Queries == 0..(MaxTx + 1)

\* get_transaction_history(q)
GetTransactionHistory(q) ==
    /\ CanRun("client")
    /\ history' = [query |-> q, entries |-> HistoryFrom(chain, q, 1)]
    /\ UNCHANGED <<chain, pending_transactions, difficulty, now, nextId, updates, pc, block,
                   result, recorded, returned, lastAudit, contract, protocol, broker,
                   correlator, network>>

NextHistory ==
    \/ Next
    \/ \E q \in Queries : GetTransactionHistory(q)

SpecHistory == InitCalls /\ [][NextHistory]_vars

\* (a bug) is_chain_valid without the recomputation of each block's hash.
IsChainLinked(c) ==
    \A i \in 2..Len(c) : c[i].previous_hash = c[i - 1].hash

\* is_chain_valid
IsChainValid(c) ==
    \A i \in 2..Len(c) :
        /\ c[i].hash = BlockHash(c[i])
        /\ c[i].previous_hash = c[i - 1].hash

\* ------------------------------------------------------------ smart contract
\* The ledger manager, constructed and left alone.
LedgerIdle ==
    /\ now = 0
    /\ difficulty = 0
    /\ chain = <<GenesisBlock(now)>>
    /\ pending_transactions = <<>>
    /\ nextId = 1
    /\ updates = 0
    /\ pc = [m \in Miners |-> "idle"]
    /\ block = [m \in Miners |-> NoBlock]
    /\ result = [m \in Miners |-> NoResult]
    /\ recorded = {}
    /\ returned = NotCalled

ledger == <<chain, pending_transactions, difficulty, now, nextId, updates, pc, block, result,
            recorded, returned>>

\* class ContractState(Enum), its members by name.
ContractStates == {"PENDING", "ACTIVE", "COMPLETED", "CANCELLED", "DISPUTED"}

\* (a bug) the table with the edge ACTIVE -> PENDING added.
ValidStateTransitionsBack(s) ==
    CASE s = "PENDING"   -> {"ACTIVE", "CANCELLED"}
      [] s = "ACTIVE"    -> {"COMPLETED", "DISPUTED", "PENDING"}
      [] s = "DISPUTED"  -> {"COMPLETED", "CANCELLED"}
      [] s = "COMPLETED" -> {}
      [] s = "CANCELLED" -> {}

\* StateValidator.valid_state_transitions
ValidStateTransitions(s) ==
    CASE s = "PENDING"   -> {"ACTIVE", "CANCELLED"}
      [] s = "ACTIVE"    -> {"COMPLETED", "DISPUTED"}
      [] s = "DISPUTED"  -> {"COMPLETED", "CANCELLED"}
      [] s = "COMPLETED" -> {}
      [] s = "CANCELLED" -> {}

\* StateValidator.validate_state_transition
ValidateStateTransition(current_state, new_state) ==
    new_state \in ValidStateTransitions(current_state)

\* (a bug) the table with a way out of COMPLETED.
ValidTransitionsReopen(s) ==
    CASE s = "PENDING"   -> {"ACTIVE", "CANCELLED"}
      [] s = "ACTIVE"    -> {"COMPLETED", "DISPUTED"}
      [] s = "DISPUTED"  -> {"COMPLETED", "CANCELLED"}
      [] s = "COMPLETED" -> {"DISPUTED"}
      [] s = "CANCELLED" -> {}

\* valid_transitions, the table local to SmartContract.validate_transition
ValidTransitions(s) ==
    CASE s = "PENDING"   -> {"ACTIVE", "CANCELLED"}
      [] s = "ACTIVE"    -> {"COMPLETED", "DISPUTED"}
      [] s = "DISPUTED"  -> {"COMPLETED", "CANCELLED"}
      [] s = "COMPLETED" -> {}
      [] s = "CANCELLED" -> {}

\* SmartContract.validate_transition
ValidateTransition(new_state) == new_state \in ValidTransitions(contract_state)

\* The metadata dicts handed to update_state.
Metadata == {"reason"}

\* A caller asks the StateValidator about a pair of states.
AskStateValidator(current_state, new_state) ==
    /\ verdict' = [by |-> "StateValidator", current |-> current_state, new |-> new_state,
                   result |-> ValidateStateTransition(current_state, new_state)]
    /\ UNCHANGED <<ledger, lastAudit, history, contract_state, events, updated, protocol,
                   broker, correlator, network>>

\* A caller asks the SmartContract about a new state.
AskSmartContract(new_state) ==
    /\ verdict' = [by |-> "SmartContract", current |-> contract_state, new |-> new_state,
                   result |-> ValidateTransition(new_state)]
    /\ UNCHANGED <<ledger, lastAudit, history, contract_state, events, updated, protocol,
                   broker, correlator, network>>

\* SmartContract.update_state: the state is assigned before the event is built,
\* so the event's old_state is read from the state already changed.
UpdateState(new_state, metadata) ==
    /\ IF ~ValidateTransition(new_state)
       THEN /\ updated' = [value |-> FALSE]
            /\ UNCHANGED <<contract_state, events>>
       ELSE /\ contract_state' = new_state
            /\ \E t \in ClockValues :
                  events' = Append(events, [timestamp |-> t, type |-> "state_change",
                                            old_state |-> contract_state',
                                            new_state |-> new_state,
                                            metadata |-> metadata])
            /\ updated' = [value |-> TRUE]
    /\ UNCHANGED <<ledger, lastAudit, history, verdict, protocol, broker, correlator, network>>

\* A SmartContract is built around a ServiceContract in any state.
InitContract ==
    /\ LedgerIdle
    /\ AuditIdle
    /\ contract_state \in ContractStates
    /\ events = <<>>
    /\ verdict = NoVerdict
    /\ updated = NoUpdate
    /\ ProtocolIdle
    /\ BrokerIdle
    /\ NetworkIdle

NextContract ==
    \/ \E c \in ContractStates : \E n \in ContractStates : AskStateValidator(c, n)
    \/ \E n \in ContractStates : AskSmartContract(n)
    \/ \E n \in ContractStates : \E md \in Metadata : UpdateState(n, md)

SpecContract == InitContract /\ [][NextContract]_vars

\* ------------------------------------------------------- message envelope
\* Python values, by their type: None, a str, a number, a dict with str keys.
PyNone == [none |-> TRUE]
PyStr(s) == [str |-> s]
PyNum(n) == [num |-> n]
PyDict(d) == [dict |-> d]

\* class MessageType(Enum): auto() numbers the members from 1 in their order.
MessageTypeNames == <<"REQUEST", "RESPONSE", "EVENT", "ERROR", "HEARTBEAT">>
MessageTypes ==
    {[enum |-> "MessageType", name |-> MessageTypeNames[k], value |-> k] :
        k \in 1..Len(MessageTypeNames)}

\* MessageType[name]
MessageTypeByName(name) == CHOOSE m \in MessageTypes : m.name = name

\* JSON text, by its grammar: null, a string, a number, an object.
JNull == [null |-> TRUE]
JString(s) == [string |-> s]
JNumber(n) == [number |-> n]
JObject(members) == [object |-> members]

RECURSIVE JsonDumps(_)
\* json.dumps
JsonDumps(v) ==
    IF "none" \in DOMAIN v THEN JNull
    ELSE IF "str" \in DOMAIN v THEN JString(v.str)
    ELSE IF "num" \in DOMAIN v THEN JNumber(v.num)
    ELSE JObject([k \in DOMAIN v.dict |-> JsonDumps(v.dict[k])])

RECURSIVE JsonLoads(_)
\* json.loads
JsonLoads(j) ==
    IF "null" \in DOMAIN j THEN PyNone
    ELSE IF "string" \in DOMAIN j THEN PyStr(j.string)
    ELSE IF "number" \in DOMAIN j THEN PyNum(j.number)
    ELSE PyDict([k \in DOMAIN j.object |-> JsonLoads(j.object[k])])

\* (a bug) to_json that leaves the correlation id out of the text.
ToJsonUncorrelated(m) ==
    JsonDumps(PyDict([id |-> m.id, type |-> PyStr(m.type.name), sender |-> m.sender,
                      recipient |-> m.recipient, content |-> m.content,
                      timestamp |-> m.timestamp, correlation_id |-> PyNone]))

\* Message.to_json: the type goes out by its name.
ToJson(m) ==
    JsonDumps(PyDict([id |-> m.id, type |-> PyStr(m.type.name), sender |-> m.sender,
                      recipient |-> m.recipient, content |-> m.content,
                      timestamp |-> m.timestamp, correlation_id |-> m.correlation_id]))

\* Message.from_json: the type is looked up by name, the dict's items become
\* the fields of the dataclass.
FromJson(json_str) ==
    LET data == JsonLoads(json_str).dict
    IN [data EXCEPT !.type = MessageTypeByName(data.type.str)]

\* The content dicts of the envelopes.
Contents ==
    {PyDict([status |-> PyStr("received")]),
     PyDict([task |-> PyStr("translate"), priority |-> PyNum(2)]),
     PyDict([error |-> PyNone, detail |-> PyDict([code |-> PyNum(7)])])}

\* The envelopes a sender may hold: Message(...) of every type, with and
\* without a correlation id.
Envelopes ==
    [id : {PyStr("u1")}, type : MessageTypes, sender : {PyStr("agent1"), PyStr("agent2")},
     recipient : {PyStr("agent2"), PyStr("*")}, content : Contents,
     timestamp : {PyNum(t) : t \in ClockValues},
     correlation_id : {PyNone, PyStr("u0")}]

\* message.to_json()
Encode ==
    /\ message # NoMessage
    /\ wire' = [exists |-> TRUE, text |-> ToJson(message)]
    /\ UNCHANGED <<ledger, lastAudit, history, contract, message, decoded, broker, correlator, network>>

\* Message.from_json(text)
Decode ==
    /\ wire # NoWire
    /\ decoded' = FromJson(wire.text)
    /\ UNCHANGED <<ledger, lastAudit, history, contract, message, wire, broker, correlator, network>>

InitProtocol ==
    /\ LedgerIdle
    /\ AuditIdle
    /\ ContractIdle
    /\ message \in Envelopes
    /\ wire = NoWire
    /\ decoded = NoMessage
    /\ BrokerIdle
    /\ NetworkIdle

NextProtocol == Encode \/ Decode

SpecProtocol == InitProtocol /\ [][NextProtocol]_vars

\* ------------------------------------------------------- protocol handler
\* correlation_id = None; envelope ids proper are 1, 2, ...
NoCorrelation == 0

\* The topics of the broker: a recipient id or the wildcard.
Wildcard == "*"
Topics == Agents \cup {Wildcard}

\* datetime.now().timestamp() at a Message.create of a broker run.
MessageClock == {1}

\* Message.create with uuid4() = id and datetime.now().timestamp() = t.
Create(id, t, msg_type, sender, recipient, content, correlation_id) ==
    [id |-> id, type |-> msg_type, sender |-> sender, recipient |-> recipient,
     content |-> content, timestamp |-> t, correlation_id |-> correlation_id]

\* (a bug) a handler table that answers a RESPONSE as it answers a REQUEST.
HandleMessageEcho(m, id, t) ==
    CASE m.type \in {"REQUEST", "RESPONSE"} ->
             Create(id, t, "RESPONSE", m.recipient, m.sender, [status |-> "received"], m.id)
      [] m.type = "ERROR" ->
             Create(id, t, "ERROR", m.recipient, m.sender, [error |-> "Error processed"], m.id)
      [] m.type = "HEARTBEAT" ->
             Create(id, t, "HEARTBEAT", m.recipient, m.sender, [status |-> "alive"], m.id)
      [] OTHER -> NoMessage

\* ProtocolHandler.handle_message: the handler of the envelope's type;
\* _handle_response and _handle_event return None.
HandleMessage(m, id, t) ==
    CASE m.type = "REQUEST" ->
             Create(id, t, "RESPONSE", m.recipient, m.sender, [status |-> "received"], m.id)
      [] m.type = "ERROR" ->
             Create(id, t, "ERROR", m.recipient, m.sender, [error |-> "Error processed"], m.id)
      [] m.type = "HEARTBEAT" ->
             Create(id, t, "HEARTBEAT", m.recipient, m.sender, [status |-> "alive"], m.id)
      [] OTHER -> NoMessage

\* The types whose handler calls Message.create.
Replying == {"REQUEST", "ERROR", "HEARTBEAT"}

\* ---------------------------------------------------------- message broker
\* The callbacks callers subscribe: one that returns at once, one that awaits
\* before it returns, one that raises, and MessageHandler.handle_message of an
\* agent.
CallbackKinds == {"quick", "slow", "failing", "handle_message"}
Callback(kind, owner) == [kind |-> kind, owner |-> owner]

\* Values of dict d under key k, d a function.
HasKey(d, k) == k \in DOMAIN d

\* (a bug) publish that enqueues and leaves the history alone.
RecordNothing(h, m) == h

\* self.message_history[message.sender].append(message), on a defaultdict(list).
Record(h, m) ==
    IF HasKey(h, m.sender) THEN [h EXCEPT ![m.sender] = Append(@, m)]
    ELSE h @@ (m.sender :> <<m>>)

\* The position of topic's entry in the subscribers dict, 0 when it has none.
TopicIndex(subs, topic) ==
    IF \E i \in 1..Len(subs) : subs[i].topic = topic
    THEN CHOOSE i \in 1..Len(subs) : subs[i].topic = topic
    ELSE 0

\* The number of registrations in the subscribers dict.
RECURSIVE Registrations(_)
Registrations(subs) ==
    IF subs = <<>> THEN 0 ELSE Len(Head(subs).callbacks) + Registrations(Tail(subs))

\* list.remove(x): the list without the first occurrence of x.
RemoveFirst(list, x) ==
    LET i == CHOOSE k \in 1..Len(list) : list[k] = x /\ \A j \in 1..(k - 1) : list[j] # x
    IN SubSeq(list, 1, i - 1) \o SubSeq(list, i + 1, Len(list))

\* The sequence without its i-th element.
Without(seq, i) == SubSeq(seq, 1, i - 1) \o SubSeq(seq, i + 1, Len(seq))

\* MessageBroker.publish, by a caller that built the envelope with
\* Message.create; Queue.put on an unbounded queue does not suspend.
Publish(msg_type, sender, recipient, correlation_id) ==
    /\ nextMessage <= MaxMessages
    /\ \E t \in MessageClock :
          LET m == Create(nextMessage, t, msg_type, sender, recipient, [action |-> "test"],
                          correlation_id)
          IN /\ message_queue' = Append(message_queue, m)
             /\ message_history' = Record(message_history, m)
             /\ enqueued' = Append(enqueued, m)
    /\ nextMessage' = nextMessage + 1
    /\ UNCHANGED <<ledger, lastAudit, history, contract, protocol, queried, subscribers,
                   unsubscribed, loop, tasks, logged, correlator, network>>

\* MessageBroker.publish of an envelope its caller created at clock reading t.
PublishAt(t, msg_type, sender, recipient, correlation_id) ==
    /\ nextMessage <= MaxMessages
    /\ LET m == Create(nextMessage, t, msg_type, sender, recipient, [action |-> "test"],
                       correlation_id)
       IN /\ message_queue' = Append(message_queue, m)
          /\ message_history' = Record(message_history, m)
          /\ enqueued' = Append(enqueued, m)
    /\ nextMessage' = nextMessage + 1
    /\ UNCHANGED <<ledger, lastAudit, history, contract, protocol, queried, subscribers,
                   unsubscribed, loop, tasks, logged, correlator, network>>

\* MessageBroker.subscribe
Subscribe(topic, callback) ==
    /\ Registrations(subscribers) < MaxSubscriptions
    /\ LET i == TopicIndex(subscribers, topic)
       IN subscribers' =
              IF i = 0 THEN Append(subscribers, [topic |-> topic, callbacks |-> <<callback>>])
              ELSE [subscribers EXCEPT ![i].callbacks = Append(@, callback)]
    /\ unsubscribed' = unsubscribed \ {callback}
    /\ UNCHANGED <<ledger, lastAudit, history, contract, protocol, queried, message_queue,
                   message_history, loop, tasks, logged, nextMessage, enqueued, correlator,
                   network>>

\* (a bug) unsubscribe that leaves the emptied topic in the dict.
UnsubscribeKeepsTopic(topic, callback) ==
    /\ LET i == TopicIndex(subscribers, topic)
       IN IF i = 0 THEN UNCHANGED <<subscribers, unsubscribed>>
          ELSE IF \A k \in 1..Len(subscribers[i].callbacks) : subscribers[i].callbacks[k] # callback
          THEN UNCHANGED <<subscribers, unsubscribed>>
          ELSE /\ subscribers' = [subscribers EXCEPT ![i].callbacks = RemoveFirst(@, callback)]
               /\ unsubscribed' = unsubscribed \cup {callback}
    /\ UNCHANGED <<ledger, lastAudit, history, contract, protocol, queried, message_queue,
                   message_history, loop, tasks, logged, nextMessage, enqueued, correlator,
                   network>>

\* MessageBroker.unsubscribe: nothing for a topic without an entry; list.remove
\* raises ValueError when the callback is not in the topic's list, and the
\* broker is as before; else the first occurrence goes, and an emptied
\* topic's entry with it.
Unsubscribe(topic, callback) ==
    /\ LET i == TopicIndex(subscribers, topic)
       IN IF i = 0 THEN UNCHANGED <<subscribers, unsubscribed>>
          ELSE IF \A k \in 1..Len(subscribers[i].callbacks) : subscribers[i].callbacks[k] # callback
          THEN UNCHANGED <<subscribers, unsubscribed>>
          ELSE /\ subscribers' =
                     LET rest == RemoveFirst(subscribers[i].callbacks, callback)
                     IN IF rest = <<>> THEN Without(subscribers, i)
                        ELSE [subscribers EXCEPT ![i].callbacks = rest]
               /\ unsubscribed' = unsubscribed \cup {callback}
    /\ UNCHANGED <<ledger, lastAudit, history, contract, protocol, queried, message_queue,
                   message_history, loop, tasks, logged, nextMessage, enqueued, correlator,
                   network>>

\* (a bug) _notify_subscribers that matches the recipient's topic only.
RECURSIVE NotifyTasksNoWildcard(_, _)
NotifyTasksNoWildcard(subs, m) ==
    IF subs = <<>> THEN <<>>
    ELSE (IF Head(subs).topic = m.recipient
          THEN [k \in 1..Len(Head(subs).callbacks) |->
                   [envelope |-> m, topic |-> Head(subs).topic,
                    callback |-> Head(subs).callbacks[k], state |-> "created"]]
          ELSE <<>>) \o NotifyTasksNoWildcard(Tail(subs), m)

\* The tasks _notify_subscribers creates for m: one per callback of every topic
\* that is m.recipient or "*", in dict order.
RECURSIVE NotifyTasks(_, _)
NotifyTasks(subs, m) ==
    IF subs = <<>> THEN <<>>
    ELSE (IF Head(subs).topic \in {m.recipient, Wildcard}
          THEN [k \in 1..Len(Head(subs).callbacks) |->
                   [envelope |-> m, topic |-> Head(subs).topic,
                    callback |-> Head(subs).callbacks[k], state |-> "created"]]
          ELSE <<>>) \o NotifyTasks(Tail(subs), m)

\* The tasks created for envelope m.
TasksOf(m) == {i \in 1..Len(tasks) : tasks[i].envelope.id = m.id}

\* A task that has returned or raised.
Finished(i) == tasks[i].state \in {"done", "failed"}

\* (a bug) a queue that hands out the newest item.
GetNewest(q) == [item |-> q[Len(q)], rest |-> SubSeq(q, 1, Len(q) - 1)]

\* asyncio.Queue.get: the oldest item leaves the queue.
Get(q) == [item |-> Head(q), rest |-> Tail(q)]

\* _process_queue from get() to its next suspension: the envelope at the head
\* of the queue goes through the protocol handler, a reply is published, the
\* callback tasks are created; with tasks the loop suspends in gather, without
\* it is back at get().
Dequeue ==
    /\ loop.pc = "get"
    /\ message_queue # <<>>
    /\ LET m == Get(message_queue).item
           waiting == Get(message_queue).rest
       IN /\ m.type \in Replying => nextMessage <= MaxMessages
          /\ \E t \in MessageClock :
                LET response == HandleMessage(m, nextMessage, t)
                    created == NotifyTasks(subscribers, m)
                IN /\ IF response # NoMessage
                      THEN /\ message_queue' = Append(waiting, response)
                           /\ message_history' = Record(message_history, response)
                           /\ enqueued' = Append(enqueued, response)
                           /\ nextMessage' = nextMessage + 1
                      ELSE /\ message_queue' = waiting
                           /\ UNCHANGED <<message_history, enqueued, nextMessage>>
                   /\ tasks' = tasks \o created
                   /\ loop' = [pc |-> IF created = <<>> THEN "get" ELSE "gather",
                               message |-> m, response |-> response]
    /\ UNCHANGED <<ledger, lastAudit, history, contract, protocol, queried, subscribers,
                   unsubscribed, logged, correlator, network>>

\* (a bug) handle_message without the future.done() test: the last matching
\* envelope wins.
HandleIncomingLastWins(a, m) ==
    /\ pending_requests' =
          IF HasKey(pending_requests[a], m.correlation_id)
          THEN [pending_requests EXCEPT ![a][m.correlation_id] = [done |-> TRUE, result |-> m]]
          ELSE pending_requests
    /\ IF m.type = "REQUEST"
       THEN /\ nextMessage <= MaxMessages
            /\ \E t \in MessageClock :
                  LET response == Create(nextMessage, t, "RESPONSE", a, m.sender,
                                         [status |-> "processed"], m.id)
                  IN /\ message_queue' = Append(message_queue, response)
                     /\ message_history' = Record(message_history, response)
                     /\ enqueued' = Append(enqueued, response)
            /\ nextMessage' = nextMessage + 1
       ELSE UNCHANGED <<message_queue, message_history, enqueued, nextMessage>>

\* MessageHandler.handle_message(m) of agent a, as a callback: a matching
\* pending future that is not done gets m; a REQUEST is answered.
HandleIncoming(a, m) ==
    /\ pending_requests' =
          IF HasKey(pending_requests[a], m.correlation_id)
             /\ ~pending_requests[a][m.correlation_id].done
          THEN [pending_requests EXCEPT ![a][m.correlation_id] = [done |-> TRUE, result |-> m]]
          ELSE pending_requests
    /\ IF m.type = "REQUEST"
       THEN /\ nextMessage <= MaxMessages
            /\ \E t \in MessageClock :
                  LET response == Create(nextMessage, t, "RESPONSE", a, m.sender,
                                         [status |-> "processed"], m.id)
                  IN /\ message_queue' = Append(message_queue, response)
                     /\ message_history' = Record(message_history, response)
                     /\ enqueued' = Append(enqueued, response)
            /\ nextMessage' = nextMessage + 1
       ELSE UNCHANGED <<message_queue, message_history, enqueued, nextMessage>>

\* A callback task runs from its start to its first suspension or its end;
\* tasks start in the order create_task scheduled them.
TaskStart(i) ==
    /\ tasks[i].state = "created"
    /\ \A j \in 1..(i - 1) : tasks[j].state # "created"
    /\ LET kind == tasks[i].callback.kind
       IN /\ tasks' = [tasks EXCEPT ![i].state =
                          CASE kind = "slow" -> "suspended"
                            [] kind = "failing" -> "failed"
                            [] OTHER -> "done"]
          /\ IF kind = "handle_message"
             THEN HandleIncoming(tasks[i].callback.owner, tasks[i].envelope)
             ELSE UNCHANGED <<message_queue, message_history, enqueued, nextMessage,
                              pending_requests>>
    /\ UNCHANGED <<ledger, lastAudit, history, contract, protocol, queried, subscribers,
                   unsubscribed, loop, logged, calls, network>>

\* The tasks of seq that are still to return.
RECURSIVE Unfinished(_)
Unfinished(seq) ==
    IF seq = <<>> THEN <<>>
    ELSE (IF Head(seq).state \in {"done", "failed"} THEN <<>> ELSE <<Head(seq)>>)
         \o Unfinished(Tail(seq))

\* Task i is one the loop is waiting for in gather.
Awaited(i) == loop.pc = "gather" /\ i \in TasksOf(loop.message)

\* A callback that awaited is resumed and returns; a finished task that
\* nothing holds any more is gone.
TaskResume(i) ==
    /\ tasks[i].state = "suspended"
    /\ tasks' = IF Awaited(i) THEN [tasks EXCEPT ![i].state = "done"] ELSE Without(tasks, i)
    /\ UNCHANGED <<ledger, lastAudit, history, contract, protocol, queried, subscribers,
                   unsubscribed, message_queue, message_history, loop, logged, nextMessage,
                   enqueued, correlator, network>>

\* asyncio.gather returns: every task of the envelope has returned;
\* task_done, back to get().
GatherDone ==
    /\ loop.pc = "gather"
    /\ \A i \in TasksOf(loop.message) : tasks[i].state = "done"
    /\ loop' = [loop EXCEPT !.pc = "get"]
    /\ tasks' = Unfinished(tasks)
    /\ UNCHANGED <<ledger, lastAudit, history, contract, protocol, queried, subscribers,
                   unsubscribed, message_queue, message_history, logged, nextMessage, enqueued,
                   correlator, network>>

\* (a bug) a loop without the try/except: the exception ends it.
GatherRaiseStops ==
    /\ loop.pc = "gather"
    /\ \E i \in TasksOf(loop.message) : tasks[i].state = "failed"
    /\ \A i \in TasksOf(loop.message) : tasks[i].state # "created"
    /\ loop' = [loop EXCEPT !.pc = "stopped"]
    /\ logged' = logged + 1
    /\ tasks' = Unfinished(tasks)
    /\ UNCHANGED <<ledger, lastAudit, history, contract, protocol, queried, subscribers,
                   unsubscribed, message_queue, message_history, nextMessage, enqueued,
                   correlator, network>>

\* asyncio.gather raises the first exception of a task as soon as every task
\* has had its first run, the other tasks go on; _process_queue catches it,
\* logs it, task_done, back to get().
GatherRaise ==
    /\ loop.pc = "gather"
    /\ \E i \in TasksOf(loop.message) : tasks[i].state = "failed"
    /\ \A i \in TasksOf(loop.message) : tasks[i].state # "created"
    /\ loop' = [loop EXCEPT !.pc = "get"]
    /\ logged' = logged + 1
    /\ tasks' = Unfinished(tasks)
    /\ UNCHANGED <<ledger, lastAudit, history, contract, protocol, queried, subscribers,
                   unsubscribed, message_queue, message_history, nextMessage, enqueued,
                   correlator, network>>

\* The envelopes callers publish and the callbacks they subscribe.
MessageTypeSet == {"REQUEST", "RESPONSE", "EVENT", "ERROR", "HEARTBEAT"}
DispatchedTypes == {"REQUEST", "EVENT"}
Senders == {"agent1"}
Recipients == {"agent2"}
PlainCallbacks == {Callback(k, "agent2") : k \in {"slow", "failing"}}

InitBroker ==
    /\ LedgerIdle
    /\ AuditIdle
    /\ ContractIdle
    /\ ProtocolIdle
    /\ BrokerIdle
    /\ NetworkIdle

NextBroker ==
    \/ \E ty \in DispatchedTypes : \E sd \in Senders : \E rc \in Recipients :
           Publish(ty, sd, rc, NoCorrelation)
    \/ \E tp \in Topics : \E cb \in PlainCallbacks : Subscribe(tp, cb)
    \/ \E tp \in Topics : \E cb \in PlainCallbacks : Unsubscribe(tp, cb)
    \/ Dequeue
    \/ \E i \in 1..Len(tasks) : TaskStart(i)
    \/ \E i \in 1..Len(tasks) : TaskResume(i)
    \/ GatherDone
    \/ GatherRaise

SpecBroker == InitBroker /\ [][NextBroker]_vars

\* The event loop runs every task that is ready: the dispatch loop when the
\* queue holds an envelope or gather has its result, a callback task that was
\* created or whose await is over.
BrokerFairness ==
    /\ WF_vars(Dequeue)
    /\ WF_vars(GatherDone)
    /\ WF_vars(GatherRaise)
    /\ WF_vars(\E i \in 1..Len(tasks) : TaskStart(i))
    /\ WF_vars(\E i \in 1..Len(tasks) : TaskResume(i))

\* Dispatch to callbacks registered under the recipient's own topic, every
\* ready task scheduled.
NextDispatch ==
    \/ \E ty \in DispatchedTypes : \E sd \in Senders : \E rc \in Recipients :
           Publish(ty, sd, rc, NoCorrelation)
    \/ \E tp \in Recipients : \E cb \in PlainCallbacks : Subscribe(tp, cb)
    \/ Dequeue
    \/ \E i \in 1..Len(tasks) : TaskStart(i)
    \/ \E i \in 1..Len(tasks) : TaskResume(i)
    \/ GatherDone
    \/ GatherRaise

SpecDispatch == InitBroker /\ [][NextDispatch]_vars /\ BrokerFairness

\* The broker without subscribers: envelopes of every type go through the
\* protocol handler.
NextReplies ==
    \/ \E ty \in MessageTypeSet : \E sd \in Senders : \E rc \in Topics :
           Publish(ty, sd, rc, NoCorrelation)
    \/ Dequeue

SpecReplies == InitBroker /\ [][NextReplies]_vars

\* -------------------------------------------------------- message history
\* An optional float argument: None, or a number.
Absent == [given |-> FALSE]
Given(n) == [given |-> TRUE, value |-> n]

\* Python's truth value of an Optional[float]: None and 0.0 are false.
Truthy(b) == b.given /\ b.value # 0

\* The loop of get_message_history over messages.
FilterHistory(messages, start_time, end_time) ==
    IF ~(Truthy(start_time) \/ Truthy(end_time)) THEN messages
    ELSE SelectSeq(messages,
                   LAMBDA m : /\ ~(Truthy(start_time) /\ m.timestamp < start_time.value)
                              /\ ~(Truthy(end_time) /\ m.timestamp > end_time.value))

\* MessageBroker.get_message_history
GetMessageHistory(agent_id, start_time, end_time) ==
    /\ queried' = [agent_id |-> agent_id, start_time |-> start_time, end_time |-> end_time,
                   result |-> FilterHistory(IF HasKey(message_history, agent_id)
                                            THEN message_history[agent_id] ELSE <<>>,
                                            start_time, end_time)]
    /\ UNCHANGED <<ledger, lastAudit, history, contract, protocol, subscribers, message_queue,
                   message_history, loop, tasks, logged, nextMessage, enqueued, unsubscribed,
                   correlator, network>>

\* Clock readings of the envelopes, the time bounds of the queries, and the
\* agents asked about (agent3 never publishes).
HistoryClock == {1, 2}
TimeBounds == {Absent} \cup {Given(n) : n \in 0..3}
Asked == Agents \cup {"agent3"}

NextMessageHistory ==
    \/ \E t \in HistoryClock : \E sd \in Agents : \E rc \in Recipients :
           PublishAt(t, "EVENT", sd, rc, NoCorrelation)
    \/ Dequeue
    \/ \E a \in Asked : \E st \in TimeBounds : \E et \in TimeBounds :
           GetMessageHistory(a, st, et)

SpecMessageHistory == InitBroker /\ [][NextMessageHistory]_vars

\* --------------------------------------------------------- message handler
\* MessageHandler.handle_message of agent a, subscribed as a callback.
HandlerCallback(a) == Callback("handle_message", a)

\* dict.pop(k, None): the dict without key k.
Pop(d, k) == [x \in DOMAIN d \ {k} |-> d[x]]

\* asyncio.Future(): not done.
NewFuture == [done |-> FALSE, result |-> NoMessage]

\* send_request up to its suspension in wait_for: the REQUEST is created, its
\* slot registered, the envelope published.
SendRequest(a, recipient) ==
    /\ nextMessage <= MaxMessages
    /\ \E t \in MessageClock :
          LET m == Create(nextMessage, t, "REQUEST", a, recipient, [action |-> "test"],
                          NoCorrelation)
          IN /\ pending_requests' = [pending_requests EXCEPT ![a] = @ @@ (m.id :> NewFuture)]
             /\ message_queue' = Append(message_queue, m)
             /\ message_history' = Record(message_history, m)
             /\ enqueued' = Append(enqueued, m)
             /\ calls' = calls @@ (m.id :> [handler |-> a, recipient |-> recipient,
                                           state |-> "waiting", result |-> NoMessage])
    /\ nextMessage' = nextMessage + 1
    /\ UNCHANGED <<ledger, lastAudit, history, contract, protocol, queried, subscribers, loop,
                   tasks, logged, unsubscribed, network>>

\* (a bug) a timeout path that leaves the slot behind.
TimeoutKeepsSlot(id) ==
    /\ HasKey(calls, id)
    /\ calls[id].state = "waiting"
    /\ ~pending_requests[calls[id].handler][id].done
    /\ calls' = [calls EXCEPT ![id].state = "returned"]
    /\ UNCHANGED <<ledger, lastAudit, history, contract, protocol, broker, pending_requests, network>>

\* wait_for runs out before the future is done: TimeoutError, send_request
\* returns None, the finally clause pops the slot.
Timeout(id) ==
    /\ HasKey(calls, id)
    /\ calls[id].state = "waiting"
    /\ ~pending_requests[calls[id].handler][id].done
    /\ calls' = [calls EXCEPT ![id].state = "returned"]
    /\ pending_requests' = [pending_requests EXCEPT ![calls[id].handler] = Pop(@, id)]
    /\ UNCHANGED <<ledger, lastAudit, history, contract, protocol, broker, network>>

\* The future is done: send_request returns its result, the finally clause
\* pops the slot.
SendRequestReturn(id) ==
    /\ HasKey(calls, id)
    /\ calls[id].state = "waiting"
    /\ pending_requests[calls[id].handler][id].done
    /\ calls' = [calls EXCEPT ![id].state = "returned",
                              ![id].result = pending_requests[calls[id].handler][id].result]
    /\ pending_requests' = [pending_requests EXCEPT ![calls[id].handler] = Pop(@, id)]
    /\ UNCHANGED <<ledger, lastAudit, history, contract, protocol, broker, network>>

\* The send_request calls that have returned.
ReturnedCalls == {id \in DOMAIN calls : calls[id].state = "returned"}

\* agent1 sends requests to agent2; each agent may subscribe its handler under
\* its own id, agent1 also a callback of its own; a RESPONSE carrying the id
\* of a request that has returned may arrive late.
Requesters == {"agent1"}
Responders == {"agent2"}
OwnCallbacks == {Callback("quick", "agent1")}

NextCorrelator ==
    \/ \E a \in Requesters : \E rc \in Responders : SendRequest(a, rc)
    \/ \E a \in Agents : Subscribe(a, HandlerCallback(a))
    \/ \E cb \in OwnCallbacks : Subscribe(cb.owner, cb)
    \/ \E id \in ReturnedCalls :
           Publish("RESPONSE", calls[id].recipient, calls[id].handler, id)
    \/ Dequeue
    \/ \E i \in 1..Len(tasks) : TaskStart(i)
    \/ GatherDone
    \/ \E id \in DOMAIN calls : Timeout(id)
    \/ \E id \in DOMAIN calls : SendRequestReturn(id)

SpecCorrelator == InitBroker /\ [][NextCorrelator]_vars

\* ------------------------------------------------------------ network node
\* The peers of the node, and where each of them listens.
Peers == {"peer1", "peer2"}
PeerAddress(p) == [host |-> "localhost", port |-> IF p = "peer1" THEN 8001 ELSE 8002]

\* What the network does to a connect_to_peer call: open_connection is
\* refused, the connection opens and the hello frame cannot be sent, or both
\* succeed.
ConnectOutcomes == {"refused", "hello_fails", "connected"}

\* key in dict, for the insertion-ordered keys of a dict.
InKeys(keys, k) == \E i \in 1..Len(keys) : keys[i] = k

\* dict[k] = v on the insertion-ordered keys: a new key goes last.
SetKey(keys, k) == IF InKeys(keys, k) THEN keys ELSE Append(keys, k)

\* del dict[k] on the insertion-ordered keys.
DelKey(keys, k) == SelectSeq(keys, LAMBDA x : x # k)

\* NetworkNode.connect_to_peer: an exception of open_connection leaves the
\* node as it was; after it the peer is registered and its reader task
\* created before the hello frame is sent; every exception returns False.
ConnectToPeer(p, outcome) ==
    /\ IF outcome = "refused"
       THEN UNCHANGED <<connections, peer_info, readers>>
       ELSE /\ connections' = SetKey(connections, p)
            /\ peer_info' = [x \in DOMAIN peer_info \cup {p} |->
                                 IF x = p THEN PeerAddress(p) ELSE peer_info[x]]
            /\ readers' = readers \cup {p}
    /\ netcall' = [op |-> "connect_to_peer", peer |-> p, outcome |-> outcome,
                   result |-> outcome = "connected"]
    /\ UNCHANGED <<ledger, lastAudit, history, contract, protocol, broker, correlator>>

\* NetworkNode.disconnect_from_peer on the dicts conns and info: nothing for
\* an unknown peer; writer.wait_closed() may raise, and then the entries stay.
AfterDisconnect(conns, info, p, closeRaises) ==
    IF ~InKeys(conns, p) \/ closeRaises
    THEN [connections |-> conns, peer_info |-> info]
    ELSE [connections |-> DelKey(conns, p), peer_info |-> Pop(info, p)]

\* _handle_peer_messages: the read fails (the peer went away or sent a bad
\* frame), the task disconnects the peer and ends.
ReaderEnds(p, closeRaises) ==
    /\ p \in readers
    /\ readers' = readers \ {p}
    /\ LET after == AfterDisconnect(connections, peer_info, p, closeRaises)
       IN connections' = after.connections /\ peer_info' = after.peer_info
    /\ UNCHANGED <<ledger, lastAudit, history, contract, protocol, broker, correlator, netcall>>

\* The position of the first peer in dict order whose send fails, 0 if none.
FirstFailing(keys, failing) ==
    IF \E i \in 1..Len(keys) : keys[i] \in failing
    THEN CHOOSE i \in 1..Len(keys) :
             keys[i] \in failing /\ \A j \in 1..(i - 1) : keys[j] \notin failing
    ELSE 0

\* NetworkNode.broadcast_message, the send to the peers in failing raising:
\* the loop runs over self.connections.items() itself, so after the first
\* failure either disconnect_from_peer raises out of the except clause, or it
\* deletes the peer and the next step of the iteration raises RuntimeError
\* (dictionary changed size during iteration).
BroadcastMessage(failing, closeRaises) ==
    /\ failing \subseteq Peers
    /\ LET k == FirstFailing(connections, failing)
       IN IF k = 0
          THEN /\ netcall' = [op |-> "broadcast_message", failing |-> failing,
                              sent |-> connections, raised |-> "none"]
               /\ UNCHANGED <<connections, peer_info>>
          ELSE LET after == AfterDisconnect(connections, peer_info, connections[k], closeRaises)
               IN /\ connections' = after.connections
                  /\ peer_info' = after.peer_info
                  /\ netcall' = [op |-> "broadcast_message", failing |-> failing,
                                 sent |-> SubSeq(connections, 1, k - 1),
                                 raised |-> IF closeRaises THEN "ConnectionError"
                                            ELSE "RuntimeError"]
    /\ UNCHANGED <<ledger, lastAudit, history, contract, protocol, broker, correlator, readers>>

NextNetwork ==
    \/ \E p \in Peers : \E outcome \in ConnectOutcomes : ConnectToPeer(p, outcome)
    \/ \E p \in Peers : \E closeRaises \in BOOLEAN : ReaderEnds(p, closeRaises)
    \/ \E failing \in SUBSET Peers : \E closeRaises \in BOOLEAN :
           BroadcastMessage(failing, closeRaises)

SpecNetwork == InitBroker /\ [][NextNetwork]_vars

\* ---------------------------------------------------------------- claims
InPending(r) == \E i \in 1..Len(pending_transactions) : pending_transactions[i] = r
InChain(r) ==
    \E i \in 1..Len(chain) : \E j \in 1..Len(chain[i].transactions) :
        chain[i].transactions[j] = r
Mining(m) == pc[m] = "pow"
Sealed(m) == pc[m] = "pow" /\ pc'[m] = "idle"
LeadingZeros(hex, d) == d <= Len(hex) /\ \A k \in 1..Len(hex) : k <= d => hex[k] = 0

\* C1: every record created by record_transaction (or update_transaction) is,
\* in every later state, in a block of the chain or in pending_transactions.
C1_NoRecordLost == \A r \in recorded : InPending(r) \/ InChain(r)

\* C1 witness: after a mine, one record sits in a block and a later one in the
\* pool behind the reward record.
C1_Witness ==
    /\ Len(chain) >= 2
    /\ \E r \in recorded : InChain(r)
    /\ \E r \in recorded : InPending(r)
    /\ Len(pending_transactions) >= 2

\* C2: a mine_block call that found the pool non-empty returns a block whose
\* hash starts with `difficulty` zeros, and the chain is one longer than when
\* the call began (the draft's index is the length at the call).
C2_MineSealsOneBlock ==
    [][\A m \in Miners : Sealed(m) =>
          /\ LeadingZeros(result'[m].hash.hex, difficulty)
          /\ result'[m] = chain'[Len(chain')]
          /\ Len(chain') = Len(chain) + 1
          /\ Len(chain') = block[m].index + 1]_vars

\* C2 witness: a block of three records mined at difficulty 2.
C2_Witness ==
    /\ difficulty = 2
    /\ result["m1"] # NoBlock
    /\ Len(result["m1"].transactions) = 3
    /\ Len(chain) = 2

\* C3: right after a successful mine_block(m) the pool is exactly the reward
\* record for m, and the mined block holds the records pending at the
\* snapshot, in their order.
C3_RewardAndSnapshot ==
    [][\A m \in Miners :
          /\ (pc[m] = "idle" /\ pc'[m] = "pow") =>
                block'[m].transactions = pending_transactions
          /\ Sealed(m) =>
                /\ pending_transactions' =
                      <<[from |-> "network", to |-> m, amount |-> MiningReward]>>
                /\ chain'[Len(chain')].transactions = block[m].transactions
                /\ chain'[Len(chain')].transactions = pending_transactions]_vars

\* C3 witness: three records mined by m1, the pool holds the reward alone.
C3_Witness ==
    /\ Len(chain) = 2
    /\ Len(chain[2].transactions) = 3
    /\ pending_transactions = <<[from |-> "network", to |-> "m1", amount |-> MiningReward]>>

\* C4: is_chain_valid() is true in every reachable state.
C4_ChainAlwaysValid == IsChainValid(chain)

\* C4 witness: two blocks mined on top of the genesis block.
C4_Witness == Len(chain) = 3 /\ \A m \in Miners : pc[m] = "idle"

\* The values a forger may write into field f of a transaction record.
ForgedValues(f) ==
    CASE f = "id"        -> 0..(MaxTx + 1)
      [] f = "timestamp" -> ClockValues \cup {-1}
      [] f = "data"      -> Payloads \cup {"forged"}
      [] f = "type"      -> {"update", "forged"}
      [] f = "amount"    -> 0..(MiningReward + 1)
      [] OTHER           -> Miners \cup {"network", "forged"}

\* Chain c with field f of transaction j of block i overwritten, hash untouched.
Tampered(c, i, j, f, v) == [c EXCEPT ![i].transactions[j][f] = v]

\* Every single-field forgery of a transaction of chain c is caught by is_chain_valid.
TamperDetected(c) ==
    \A i \in 1..Len(c) : \A j \in 1..Len(c[i].transactions) :
        \A f \in DOMAIN c[i].transactions[j] :
            \A v \in ForgedValues(f) \ {c[i].transactions[j][f]} :
                ~IsChainValid(Tampered(c, i, j, f, v))

\* C5: changing any single field of any transaction of any block of the chain,
\* without re-hashing, makes is_chain_valid() false; stated of every chain the
\* manager builds, at the step that appends to it.
C5_TamperDetected == [][chain' # chain => TamperDetected(chain')]_vars

\* C5 witness: a chain whose blocks hold a recorded, an update and a reward record.
C5_Witness ==
    /\ Len(chain) = 3
    /\ \E j \in 1..Len(chain[2].transactions) : "type" \in DOMAIN chain[2].transactions[j]
    /\ \E j \in 1..Len(chain[3].transactions) : "from" \in DOMAIN chain[3].transactions[j]

\* C6: block 0 has index 0 and previous_hash "0"; every later block has the
\* index of its predecessor plus one and its predecessor's hash as
\* previous_hash; every block's hash is the hash of its five fields.
C6_ChainLinked ==
    /\ chain[1].index = 0
    /\ chain[1].previous_hash = [hex |-> <<0>>, of |-> <<>>]
    /\ \A i \in 2..Len(chain) :
          /\ chain[i].index = chain[i - 1].index + 1
          /\ chain[i].previous_hash = chain[i - 1].hash
    /\ \A i \in 1..Len(chain) :
          chain[i].hash = CalculateHash(chain[i].index, chain[i].timestamp,
                                        chain[i].transactions, chain[i].previous_hash,
                                        chain[i].nonce)

\* C6 witness: a mined block whose search moved the nonce.
C6_Witness == Len(chain) = 3 /\ chain[2].nonce > 0 /\ chain[3].nonce > 0

IsPrefix(s, t) == Len(s) <= Len(t) /\ \A i \in 1..Len(s) : s[i] = t[i]

\* C8: the chain is never empty and only grows at its end: across every step
\* the old chain is a prefix of the new one, and after an append
\* get_latest_block returns the block just appended.
C8_AppendOnly ==
    [][/\ chain # <<>> /\ chain' # <<>>
       /\ IsPrefix(chain, chain')
       /\ \A m \in Miners : Sealed(m) =>
             /\ Len(chain') = Len(chain) + 1
             /\ GetLatestBlock(chain') = block[m]
             /\ chain'[Len(chain')] = block[m]]_vars

\* C8 witness: a second block appended behind the first.
C8_Witness == Len(chain) = 3 /\ result["m1"] = chain[3]

\* C9: at most one mine_block is in flight, the auto-miner's included; no two
\* blocks share an index or a previous_hash; indexes increase along the chain.
C9_MiningSerialized ==
    /\ Cardinality({m \in Miners : Mining(m)}) <= 1
    /\ \A i, j \in 1..Len(chain) :
          i < j => /\ chain[i].index < chain[j].index
                   /\ chain[i].previous_hash # chain[j].previous_hash

\* C9 witness: the auto-miner is searching after a manual mine_block returned,
\* with records in the pool that a manual call would mine.
C9_Witness ==
    /\ Mining(AutoMiner)
    /\ result["m1"] # NoBlock
    /\ pending_transactions # <<>>

\* C10 as claimed: while a search is in progress a record_transaction call can
\* run and append to the pool.
C10_RecordDuringSearch ==
    \A m \in Miners :
        (Mining(m) /\ nextId <= MaxTx) => ENABLED (\E p \in Payloads : RecordTransaction(p))

\* A step in which mine_block(m) is called: m was idle and its call state moves.
CallsMine(m) ==
    /\ pc[m] = "idle"
    /\ pc'[m] # pc[m] \/ result'[m] # result[m] \/ block'[m] # block[m]

\* C11: mine_block called while the pool is empty returns nothing (no block, no
\* error) and leaves the chain and the pending pool exactly as they were.
C11_EmptyPoolMineIsNoOp ==
    [][\A m \in Miners :
          (pending_transactions = <<>> /\ CallsMine(m))
              => /\ result'[m] = NoBlock
                 /\ pc'[m] = "idle"
                 /\ chain' = chain
                 /\ pending_transactions' = pending_transactions]_vars

\* C11 witness: a mine_block call on the empty pool has returned nothing.
C11_Witness ==
    /\ result["m1"] = NoBlock
    /\ pending_transactions = <<>>
    /\ Len(chain) = 1

\* A step in which record_transaction or update_transaction is called.
CallsRecord == returned' # returned \/ nextId' # nextId \/ updates' # updates

\* C12: record_transaction and update_transaction never fail for a well-formed
\* payload (an object or, as in the tests, a plain dict); each call appends
\* exactly one record with a fresh id at the end of the pool and leaves the
\* pool's earlier records and the chain unchanged; record_transaction returns
\* the id of the record it appended.
C12_RecordAppendsOne ==
    [][CallsRecord =>
          /\ "raised" \notin DOMAIN returned'
          /\ Len(pending_transactions') = Len(pending_transactions) + 1
          /\ SubSeq(pending_transactions', 1, Len(pending_transactions)) = pending_transactions
          /\ LET r == pending_transactions'[Len(pending_transactions')]
             IN /\ \A o \in recorded : o.id # r.id
                /\ "id" \in DOMAIN returned' => returned'.id = r.id
                /\ "type" \notin DOMAIN r => "id" \in DOMAIN returned'
          /\ chain' = chain]_vars

\* The places <<block, position>> of the chain whose record answers query q.
Places(q) ==
    {pl \in (1..Len(chain)) \X (1..MaxTx + 1) :
        /\ pl[2] <= Len(chain[pl[1]].transactions)
        /\ q # NoId => /\ "id" \in DOMAIN chain[pl[1]].transactions[pl[2]]
                       /\ chain[pl[1]].transactions[pl[2]].id = q}

\* Place a comes before place b in chain order.
Before(a, b) == a[1] < b[1] \/ (a[1] = b[1] /\ a[2] < b[2])

\* C13: get_transaction_history(id) returns exactly the mined records with that
\* id (every mined record when no id is given), each with the index and the
\* timestamp of its block, in chain order, and never a record that is only
\* pending; a record recorded once and then mined has exactly one entry.
C13_HistoryIsMinedRecords ==
    [][history' # history =>
          LET q == history'.query
              h == history'.entries
          IN /\ Len(h) = Cardinality(Places(q))
             /\ \A pl \in Places(q) :
                    LET k == Cardinality({o \in Places(q) : Before(o, pl)}) + 1
                    IN /\ h[k].transaction = chain[pl[1]].transactions[pl[2]]
                       /\ h[k].block_index = chain[pl[1]].index
                       /\ h[k].timestamp = chain[pl[1]].timestamp
             /\ \A k \in 1..Len(h) :
                    ~(InPending(h[k].transaction) /\ ~InChain(h[k].transaction))
             /\ (\E r \in recorded : r.id = q /\ InChain(r)) => Len(h) = 1]_vars

\* C13 witness: a query for a mined record's id returned its one entry while
\* other records were mined and a record was pending; a query for a pending
\* record's id returned nothing.
C13_Witness ==
    /\ history # NoHistory
    /\ history.query = 2
    /\ Len(history.entries) = 1
    /\ history.entries[1].block_index = 1
    /\ Len(chain) = 2
    /\ Len(chain[2].transactions) >= 2
    /\ \E r \in recorded : InPending(r) /\ ~InChain(r)

\* The pool has reached the auto-miner's minimum size and the chain has room.
PoolReady(n) == Len(pending_transactions) >= MinPoolSize /\ Len(chain) = n

\* C14 as stated: whenever the pool has reached the minimum size, the auto-miner
\* eventually calls mine_block("system").
C14_AutoMinerAlwaysMines ==
    \A n \in 1..(MaxChain - 1) : PoolReady(n) ~> Mining(AutoMiner)

\* C14 amended: whenever the pool has reached the minimum size it is eventually
\* sealed (the pool shrinks, which only the append of a block does), by the
\* auto-miner or by a caller's mine_block that got to the pool first; and the
\* auto-miner never starts mining while the pool is below the minimum size.
C14_FullPoolIsMined ==
    /\ (Len(pending_transactions) >= MinPoolSize /\ Len(chain) < MaxChain)
           ~> (Len(pending_transactions) < MinPoolSize)
    /\ [][Len(pending_transactions') < Len(pending_transactions)
              => chain' = Append(chain, chain'[Len(chain')])]_vars
    /\ [][(~Mining(AutoMiner) /\ Mining(AutoMiner)')
              => Len(pending_transactions) >= MinPoolSize]_vars

\* C14 witness: the auto-miner has sealed a block holding at least the minimum
\* number of records.
C14_Witness ==
    /\ "hash" \in DOMAIN result[AutoMiner]
    /\ chain[Len(chain)] = result[AutoMiner]
    /\ Len(result[AutoMiner].transactions) >= MinPoolSize

\* C15: block timestamps strictly increase along the chain.
C15_TimestampsIncrease ==
    \A i \in 2..Len(chain) : chain[i].timestamp > chain[i - 1].timestamp

\* Some block of c was altered after its hash was computed.
Altered(c) == \E i \in 1..Len(c) : c[i].hash # BlockHash(c[i])

\* C16: validate_chain, by a validator of the manager's difficulty, returns True
\* for the manager's chain in every state the manager reaches.
C16_LedgerChainPassesAudit ==
    (lastAudit # NoAudit /\ IsPrefix(lastAudit.chain, chain)) => lastAudit.result

\* C17: validate_chain returns False for a chain in which any block, the genesis
\* block included, had its transactions altered after its hash was computed.
C17_AlteredChainFailsAudit ==
    (lastAudit # NoAudit /\ Altered(lastAudit.chain)) => ~lastAudit.result

\* C18 as stated: two validate_chain calls on the same unchanged chain return
\* the same result, and the call leaves the chain unchanged.
C18_AuditIdempotent ==
    [][lastAudit' # lastAudit =>
          /\ chain' = chain
          /\ lastAudit'.chain = lastAudit.chain => lastAudit'.result = lastAudit.result]_vars

\* A transaction of c whose timestamp is after clock reading t0 and not after t1.
MaturedBetween(c, t0, t1) ==
    \E i \in 2..Len(c) : \E k \in 1..Len(c[i].transactions) :
        /\ "timestamp" \in DOMAIN c[i].transactions[k]
        /\ t0 < c[i].transactions[k].timestamp
        /\ c[i].transactions[k].timestamp <= t1

\* C18 amended: validate_chain leaves the chain (and the ledger) unchanged; two
\* calls on the same chain return the same result unless a transaction's
\* timestamp lies between the validator's two clock readings; a chain found
\* valid stays valid at every later reading.
C18_AuditRepeatable ==
    [][lastAudit' # lastAudit =>
          /\ UNCHANGED <<chain, pending_transactions>>
          /\ lastAudit'.chain = lastAudit.chain =>
                /\ lastAudit'.result # lastAudit.result =>
                      \/ MaturedBetween(lastAudit.chain, lastAudit.time, lastAudit'.time)
                      \/ MaturedBetween(lastAudit.chain, lastAudit'.time, lastAudit.time)
                /\ (lastAudit.result /\ lastAudit'.time >= lastAudit.time)
                      => lastAudit'.result]_vars

\* C18 witness: the second of two calls on the same two-block chain found it
\* valid.
C18_Witness ==
    /\ lastAudit.repeated
    /\ lastAudit.result
    /\ Len(lastAudit.chain) = 2
    /\ lastAudit.chain = chain

\* The six edges of the contract lifecycle.
AllowedEdges ==
    {<<"PENDING", "ACTIVE">>, <<"PENDING", "CANCELLED">>, <<"ACTIVE", "COMPLETED">>,
     <<"ACTIVE", "DISPUTED">>, <<"DISPUTED", "COMPLETED">>, <<"DISPUTED", "CANCELLED">>}

\* C19: validate_state_transition(current, new) is true exactly for the six
\* allowed edges and false for every other pair of the five states, and
\* SmartContract.validate_transition accepts exactly the same edges out of the
\* contract's state.
C19_ExactlySixEdges ==
    verdict # NoVerdict =>
        (verdict.result <=> <<verdict.current, verdict.new>> \in AllowedEdges)

\* C19 witness: both validators have answered, one accepting DISPUTED ->
\* CANCELLED on a contract that update_state moved to DISPUTED.
C19_Witness ==
    /\ verdict # NoVerdict
    /\ verdict.by = "SmartContract"
    /\ verdict.current = "DISPUTED"
    /\ verdict.new = "CANCELLED"
    /\ verdict.result
    /\ Len(events) = 2

C21_ReplyByType ==
    loop.message # NoMessage =>
        LET m == loop.message
            r == loop.response
        IN /\ m.type \in {"RESPONSE", "EVENT"} <=> r = NoMessage
           /\ r # NoMessage => r.correlation_id = m.id /\ r.id # m.id
           /\ m.type = "REQUEST" =>
                 /\ r.type = "RESPONSE"
                 /\ r.recipient = m.sender
                 /\ r.content = [status |-> "received"]
           /\ m.type = "ERROR" => r.type = "ERROR"
           /\ m.type = "HEARTBEAT" =>
                 /\ r.type = "HEARTBEAT"
                 /\ r.content = [status |-> "alive"]

\* C21 witness: a HEARTBEAT reply, itself a HEARTBEAT, was dequeued and
\* answered again.
C21_Witness ==
    /\ loop.message # NoMessage
    /\ loop.message.type = "HEARTBEAT"
    /\ loop.message.correlation_id # NoCorrelation
    /\ loop.response # NoMessage
    /\ loop.response.correlation_id = loop.message.id

\* The envelopes of sender s among those enqueued so far, in enqueue order.
EnqueuedBy(s) == SelectSeq(enqueued, LAMBDA e : e.sender = s)

\* C22: a step that enqueues an envelope appends it to its sender's history
\* in that same step; each sender's history is that sender's envelopes in
\* publish order and only grows, whatever happens to the envelope in dispatch.
C22_HistoryFollowsPublish ==
    [][/\ Len(enqueued') > Len(enqueued) =>
             LET e == enqueued'[Len(enqueued')]
             IN /\ message_queue'[Len(message_queue')] = e
                /\ HasKey(message_history', e.sender)
                /\ message_history'[e.sender] =
                       (IF HasKey(message_history, e.sender)
                        THEN message_history[e.sender] ELSE <<>>) \o <<e>>
       /\ \A s \in DOMAIN message_history :
             /\ HasKey(message_history', s)
             /\ IsPrefix(message_history[s], message_history'[s])
       /\ \A s \in DOMAIN message_history' : message_history'[s] = EnqueuedBy(s)'
       /\ \A k \in 1..Len(enqueued') : HasKey(message_history', enqueued'[k].sender)
      ]_vars

\* C22 witness: a callback raised on an envelope, the loop logged it, and the
\* envelope is in its sender's history, next to a reply in the history of the
\* sender of the reply.
C22_Witness ==
    /\ logged > 0
    /\ loop.message # NoMessage
    /\ loop.pc = "get"
    /\ HasKey(message_history, loop.message.sender)
    /\ \E k \in 1..Len(message_history[loop.message.sender]) :
          message_history[loop.message.sender][k] = loop.message
    /\ loop.response # NoMessage
    /\ HasKey(message_history, loop.response.sender)
    /\ loop.response.sender # loop.message.sender

\* The number of envelopes the dispatch loop has taken from the queue.
Dequeued == Len(enqueued) - Len(message_queue)

\* C23: the dispatch loop takes one envelope at a time, and always the one
\* enqueued earliest among those waiting, whoever published them; the queue
\* holds the envelopes not yet taken in enqueue order, so a protocol-handler
\* reply goes behind every envelope already waiting.
C23_StrictFifo ==
    [][/\ Dequeued' \in {Dequeued, Dequeued + 1}
       /\ IsPrefix(enqueued, enqueued')
       /\ Len(enqueued') <= Len(enqueued) + 1
       /\ Dequeued' = Dequeued + 1 =>
             /\ loop'.message = enqueued[Dequeued + 1]
             /\ loop'.message = message_queue[1]
             /\ IsPrefix(Tail(message_queue), message_queue')
       /\ Dequeued' = Dequeued => IsPrefix(message_queue, message_queue')
       /\ \A k \in 1..Len(message_queue') : message_queue'[k] = enqueued'[Dequeued' + k]
      ]_vars

\* C23 witness: the reply to a dequeued REQUEST waits behind an envelope that
\* was published while the REQUEST was waiting.
C23_Witness ==
    /\ Len(message_queue) = 2
    /\ loop.message # NoMessage
    /\ loop.message.type = "REQUEST"
    /\ message_queue[1].correlation_id = NoCorrelation
    /\ message_queue[2] = loop.response
    /\ message_queue[2].correlation_id = loop.message.id

\* C24: the dispatch loop takes the next envelope from the queue only when
\* every callback task started for the envelopes before it has returned or
\* raised, also in runs where a callback raises.
C24_NoOverlap ==
    [][Dequeued' = Dequeued + 1 =>
           \A i \in 1..Len(tasks) : tasks[i].state \notin {"created", "suspended"}]_vars

\* The dispatch loop has nothing left to do: it waits in get() on an empty
\* queue, or on an envelope whose reply would be one Message.create more than
\* MaxMessages, and no callback task is still to return.
Drained ==
    /\ loop.pc = "get"
    /\ tasks = <<>>
    /\ \/ message_queue = <<>>
       \/ message_queue[1].type \in Replying /\ nextMessage > MaxMessages

\* C25: a callback that raises does not stop the dispatch loop. The step in
\* which the loop logs the exception puts it back at get() with the queue as
\* it was and leaves every callback task that has not returned as it is; from
\* then on those tasks return and every envelope in the queue, published
\* before or after, is dequeued and dispatched.
C25_LoopSurvivesCallbackError ==
    /\ [][logged' > logged =>
              /\ loop'.pc = "get"
              /\ message_queue' = message_queue
              /\ tasks' = SelectSeq(tasks, LAMBDA task : task.state = "suspended")]_vars
    /\ (logged > 0 ~> Drained)

\* C25 witness: after a logged callback failure, an EVENT published by a
\* caller was the third envelope dispatched and the queue is drained.
C25_Witness ==
    /\ logged > 0
    /\ Drained
    /\ message_queue = <<>>
    /\ Dequeued = 3
    /\ loop.message.type = "EVENT"
    /\ loop.message.id = 3
    /\ Registrations(subscribers) = 2

\* How many times callback cb is registered under topic tp.
RegisteredTimes(tp, cb) ==
    IF TopicIndex(subscribers, tp) = 0 THEN 0
    ELSE LET list == subscribers[TopicIndex(subscribers, tp)].callbacks
         IN Cardinality({k \in 1..Len(list) : list[k] = cb})

\* C26: when an envelope is dequeued, every registration of a callback under
\* the envelope's recipient or under "*" gets one invocation with that
\* envelope (a callback registered twice gets two), a registration under any
\* other topic gets none; no step but a dequeue adds an invocation, and an
\* invocation that has started never starts again.
C26_OneInvocationPerRegistration ==
    [][/\ Dequeued' = Dequeued + 1 =>
             LET m == loop'.message
                 new == SubSeq(tasks', Len(tasks) + 1, Len(tasks'))
             IN /\ IsPrefix(tasks, tasks')
                /\ \A k \in 1..Len(new) : new[k].envelope = m /\ new[k].state = "created"
                /\ \A tp \in Topics : \A cb \in PlainCallbacks :
                      Cardinality({k \in 1..Len(new) :
                                      new[k].topic = tp /\ new[k].callback = cb}) =
                          IF tp \in {m.recipient, "*"} THEN RegisteredTimes(tp, cb) ELSE 0
       /\ Dequeued' = Dequeued =>
             /\ Len(tasks') <= Len(tasks)
             /\ Len(SelectSeq(tasks', LAMBDA task : task.state = "created"))
                    <= Len(SelectSeq(tasks, LAMBDA task : task.state = "created"))
      ]_vars

\* C26 witness: an envelope for agent2 was dequeued while a callback was
\* registered under "*" and another under agent1; the one under "*" was
\* invoked, once, and nothing else.
C26_Witness ==
    /\ loop.pc = "gather"
    /\ loop.message.recipient = "agent2"
    /\ Len(tasks) = 1
    /\ tasks[1].topic = Wildcard
    /\ tasks[1].envelope = loop.message
    /\ tasks[1].state = "suspended"
    /\ Len(subscribers) = 2
    /\ RegisteredTimes("agent1", Callback("failing", "agent2")) = 1
    /\ RegisteredTimes(Wildcard, Callback("slow", "agent2")) = 1

\* The callbacks registered under topic tp in the subscribers dict subs.
CallbacksOf(subs, tp) ==
    IF TopicIndex(subs, tp) = 0 THEN <<>> ELSE subs[TopicIndex(subs, tp)].callbacks

\* How many of the tasks in seq run callback cb.
InvocationsOf(seq, cb) == Len(SelectSeq(seq, LAMBDA task : task.callback = cb))

\* C27 as stated: no topic is left with an empty callback list, an unsubscribe
\* leaves the other topics' registrations as they were, and a callback that
\* has been unsubscribed is invoked for no envelope dequeued afterwards.
C27_UnsubscribedNeverInvoked ==
    [][/\ \A k \in 1..Len(subscribers') : subscribers'[k].callbacks # <<>>
       /\ Registrations(subscribers') < Registrations(subscribers) =>
             \E tp \in Topics : \A other \in Topics \ {tp} :
                 CallbacksOf(subscribers', other) = CallbacksOf(subscribers, other)
       /\ Dequeued' = Dequeued + 1 =>
             \A cb \in unsubscribed :
                 InvocationsOf(tasks', cb) <= InvocationsOf(tasks, cb)
      ]_vars

\* C27 amended: no topic is left with an empty callback list; an unsubscribe
\* takes away one registration, the earliest of that callback under that
\* topic, and leaves every other registration as it was; for an envelope
\* dequeued afterwards the callback is invoked once per registration it still
\* has under the recipient's topic or "*", and not at all when it has none.
C27_UnsubscribeTakesOneRegistration ==
    [][/\ \A k \in 1..Len(subscribers') : subscribers'[k].callbacks # <<>>
       /\ Registrations(subscribers') < Registrations(subscribers) =>
             /\ Registrations(subscribers') = Registrations(subscribers) - 1
             /\ \E tp \in Topics :
                   /\ \E cb \in unsubscribed' :
                         /\ RegisteredTimes(tp, cb)' = RegisteredTimes(tp, cb) - 1
                         /\ CallbacksOf(subscribers', tp) =
                                RemoveFirst(CallbacksOf(subscribers, tp), cb)
                   /\ \A other \in Topics \ {tp} :
                         CallbacksOf(subscribers', other) = CallbacksOf(subscribers, other)
       /\ Dequeued' = Dequeued + 1 =>
             \A cb \in unsubscribed :
                 InvocationsOf(tasks', cb) =
                     InvocationsOf(tasks, cb)
                     + RegisteredTimes(loop'.message.recipient, cb)
                     + RegisteredTimes(Wildcard, cb)
      ]_vars

\* C27 witness: a callback registered twice under "*" was unsubscribed once,
\* and an envelope dequeued with the one registration left invoked it once.
C27_Witness ==
    /\ unsubscribed = {Callback("slow", "agent2")}
    /\ subscribers = <<[topic |-> Wildcard, callbacks |-> <<Callback("slow", "agent2")>>]>>
    /\ loop.pc = "gather"
    /\ Len(tasks) = 1
    /\ tasks[1].callback \in unsubscribed
    /\ tasks[1].state = "created"
    /\ tasks[1].envelope.id = 3

\* No callback is registered under topic rc or under "*".
NoSubscriber(rc) == TopicIndex(subscribers, rc) = 0 /\ TopicIndex(subscribers, Wildcard) = 0

\* C28: a send_request to a recipient without a subscriber returns None, and
\* once it has returned its handler has no slot for the request's id, so an
\* envelope that carries that correlation id later finds nothing to resolve.
C28_GhostRequestReturnsAbsent ==
    \A id \in ReturnedCalls :
        NoSubscriber(calls[id].recipient) =>
            /\ calls[id].result = NoMessage
            /\ ~HasKey(pending_requests[calls[id].handler], id)

\* A step in which the task of a callback registered under the requester's
\* own id starts on the protocol handler's RESPONSE to request id.
Delivers(id) ==
    /\ Len(tasks') = Len(tasks)
    /\ \E i \in 1..Len(tasks) :
          /\ tasks[i].state = "created"
          /\ tasks'[i].state # "created"
          /\ tasks[i].topic = calls[id].handler
          /\ tasks[i].envelope.type = "RESPONSE"
          /\ tasks[i].envelope.correlation_id = id
          /\ tasks[i].envelope.sender = calls[id].recipient
          /\ tasks[i].envelope.content = [status |-> "received"]

\* C29: while a send_request addressed to a recipient without a subscriber has
\* not returned, no callback registered under the requester's own id is handed
\* a response to it.
C29_NoResponseFromGhost ==
    [][\A id \in DOMAIN calls :
           calls[id].state = "waiting" /\ NoSubscriber(calls[id].recipient) => ~Delivers(id)]_vars

\* The slots of all handlers, as (handler, id) pairs.
Slots == {hid \in Handlers \X (1..MaxMessages) : HasKey(pending_requests[hid[1]], hid[2])}

\* The send_request calls that have not returned, as (handler, id) pairs.
InFlight == {hid \in Handlers \X (1..MaxMessages) :
                /\ HasKey(calls, hid[2])
                /\ calls[hid[2]].handler = hid[1]
                /\ calls[hid[2]].state = "waiting"}

\* C30: a handler holds a slot for an id exactly while the send_request that
\* created that id has not returned: the slot is there in the state in which
\* the REQUEST enters the queue, no id has a slot in two handlers, the step in
\* which the call returns (reply or timeout) removes the slot, and there are
\* never more slots than calls in flight.
C30_SlotWhileOutstanding ==
    [][/\ Slots' = InFlight'
       /\ Cardinality(Slots') <= Cardinality(InFlight')
       /\ \A h \in Handlers : \A g \in Handlers \ {h} :
             DOMAIN pending_requests'[h] \cap DOMAIN pending_requests'[g] = {}
       /\ \A id \in DOMAIN calls' \ DOMAIN calls :
             /\ HasKey(pending_requests'[calls'[id].handler], id)
             /\ ~pending_requests'[calls'[id].handler][id].done
             /\ enqueued'[Len(enqueued')].id = id
             /\ Len(enqueued') = Len(enqueued) + 1
       /\ \A id \in DOMAIN calls :
             calls[id].state = "waiting" /\ calls'[id].state = "returned" =>
                 /\ HasKey(pending_requests[calls[id].handler], id)
                 /\ ~HasKey(pending_requests'[calls[id].handler], id)
      ]_vars

\* C30 witness: one request returned with a reply, a second one timed out,
\* and no slot is left.
C30_Witness ==
    /\ Cardinality(ReturnedCalls) = 2
    /\ \E id \in ReturnedCalls : calls[id].result # NoMessage
    /\ \E id \in ReturnedCalls : calls[id].result = NoMessage
    /\ Slots = {}

\* A step in which task i, a MessageHandler.handle_message callback, runs.
HandlerRuns(i) ==
    /\ Len(tasks') = Len(tasks)
    /\ i \in 1..Len(tasks)
    /\ tasks[i].state = "created"
    /\ tasks'[i].state # "created"
    /\ tasks[i].callback.kind = "handle_message"

\* C31: handle_message of agent a on envelope m puts m into the slot of a
\* whose key is m.correlation_id when that slot is not resolved yet, and
\* changes no slot otherwise (resolved already, or no such key); for a REQUEST
\* it publishes one RESPONSE from a to m.sender correlated to m.id, and for
\* any other type it publishes nothing.
C31_FirstResolutionWins ==
    [][\A i \in 1..Len(tasks) :
           HandlerRuns(i) =>
               LET a == tasks[i].callback.owner
                   m == tasks[i].envelope
                   slots == pending_requests[a]
               IN /\ IF HasKey(slots, m.correlation_id) /\ ~slots[m.correlation_id].done
                     THEN /\ DOMAIN pending_requests'[a] = DOMAIN slots
                          /\ pending_requests'[a][m.correlation_id] =
                                 [done |-> TRUE, result |-> m]
                          /\ \A k \in DOMAIN slots \ {m.correlation_id} :
                                 pending_requests'[a][k] = slots[k]
                     ELSE pending_requests'[a] = slots
                  /\ \A h \in Handlers \ {a} : pending_requests'[h] = pending_requests[h]
                  /\ IF m.type = "REQUEST"
                     THEN /\ Len(enqueued') = Len(enqueued) + 1
                          /\ LET r == enqueued'[Len(enqueued')]
                             IN /\ r.type = "RESPONSE"
                                /\ r.sender = a
                                /\ r.recipient = m.sender
                                /\ r.correlation_id = m.id
                                /\ message_queue' = Append(message_queue, r)
                     ELSE enqueued' = enqueued /\ message_queue' = message_queue]_vars

\* C31 witness: the requester's handler has run on a second RESPONSE to its
\* request while the slot, resolved by the first RESPONSE, was still there.
C31_Witness ==
    /\ HasKey(calls, 1)
    /\ calls[1].state = "waiting"
    /\ pending_requests["agent1"][1].done
    /\ pending_requests["agent1"][1].result.id = 2
    /\ loop.pc = "gather"
    /\ loop.message.id = 3
    /\ loop.message.correlation_id = 1
    /\ \E i \in 1..Len(tasks) :
          /\ tasks[i].envelope = loop.message
          /\ tasks[i].callback = HandlerCallback("agent1")
          /\ tasks[i].state = "done"

\* The envelopes of agent a the broker holds, none for an unknown agent.
HistoryOf(a) == IF HasKey(message_history, a) THEN message_history[a] ELSE <<>>

\* C32: a get_message_history call returns, in publish order, the sender's
\* envelopes that are not stamped before a given start_time and not after a
\* given end_time, whatever numbers the bounds are; without bounds the whole
\* history, for an unknown sender the empty sequence.
C32_HistoryWithinBounds ==
    [][queried' # queried =>
           LET q == queried'
           IN q.result =
                  SelectSeq(HistoryOf(q.agent_id),
                            LAMBDA m : /\ ~(q.start_time.given /\ m.timestamp < q.start_time.value)
                                       /\ ~(q.end_time.given /\ m.timestamp > q.end_time.value))
      ]_vars

\* C33: a connect_to_peer call whose connection or hello handshake fails
\* returns False, and when the call has returned False the peer is in neither
\* connections nor peer_info.
C33_FailedConnectLeavesNoTrace ==
    [][netcall' # netcall /\ netcall'.op = "connect_to_peer" =>
           /\ netcall'.outcome # "connected" => ~netcall'.result
           /\ ~netcall'.result =>
                 /\ ~InKeys(connections', netcall'.peer)
                 /\ ~HasKey(peer_info', netcall'.peer)]_vars

\* Every peer in failing went out of connections and peer_info.
Removed(failing) ==
    \A p \in failing : ~InKeys(connections', p) /\ ~HasKey(peer_info', p)

\* C34: a broadcast_message call raises nothing, whatever peers are connected:
\* each peer whose send failed is out of connections and peer_info afterwards
\* and every other connected peer was sent the message.
C34_BroadcastNeverRaises ==
    [][netcall' # netcall /\ netcall'.op = "broadcast_message" =>
           /\ netcall'.raised = "none"
           /\ Removed(netcall'.failing)
           /\ \A i \in 1..Len(connections) :
                 connections[i] \notin netcall'.failing =>
                     InKeys(netcall'.sent, connections[i])]_vars

\* C35: across update_state calls the contract state moves only along allowed
\* edges. A call that returns False leaves state and events as they were; a
\* call that is accepted returns True, sets the new state and appends exactly
\* one state_change event; COMPLETED and CANCELLED are never left.
C35_OnlyAllowedEdges ==
    [][/\ contract_state' # contract_state =>
             /\ <<contract_state, contract_state'>> \in AllowedEdges
             /\ updated' = [value |-> TRUE]
             /\ Len(events') = Len(events) + 1
             /\ IsPrefix(events, events')
             /\ events'[Len(events')].type = "state_change"
             /\ events'[Len(events')].new_state = contract_state'
       /\ contract_state' = contract_state => events' = events
       /\ updated' # updated /\ updated' = [value |-> FALSE] =>
             contract_state' = contract_state /\ events' = events
       /\ contract_state \in {"COMPLETED", "CANCELLED"} => contract_state' = contract_state
      ]_vars

\* C35 witness: a contract went PENDING, ACTIVE, DISPUTED, COMPLETED and an
\* update asked for after that was rejected.
C35_Witness ==
    /\ contract_state = "COMPLETED"
    /\ Len(events) = 3
    /\ events[1].new_state = "ACTIVE"
    /\ events[2].new_state = "DISPUTED"
    /\ events[3].new_state = "COMPLETED"
    /\ updated = [value |-> FALSE]

\* C40: the state_change event an update_state call appends has in old_state
\* the state the contract was in before the call and in new_state the state
\* it is in after it, so the two always form an allowed edge.
C40_EventRecordsTheEdge ==
    [][events' # events =>
           LET e == events'[Len(events')]
           IN /\ e.old_state = contract_state
              /\ e.new_state = contract_state'
              /\ <<e.old_state, e.new_state>> \in AllowedEdges]_vars

\* C36: once a block has been mined the pool is never empty again (it holds
\* at least the reward record), so no later mine_block call returns None:
\* whenever a call returns it returns the block it has just appended.
C36_PoolNeverEmptyAfterMining ==
    [][/\ Len(chain') >= 2 => pending_transactions' # <<>>
       /\ Len(chain) >= 2 =>
             \A m \in Miners :
                 result'[m] # result[m] =>
                     /\ result'[m] # NoBlock
                     /\ chain' = Append(chain, result'[m])
                     /\ pending_transactions' = <<RewardRecord(m)>>]_vars

\* C36 witness: the second mined block carries nothing but the reward record
\* of the first.
C36_Witness ==
    /\ Len(chain) = 3
    /\ chain[3].transactions = <<RewardRecord("m1")>>
    /\ result["m1"] = chain[3]
    /\ pending_transactions = <<RewardRecord("m1")>>

\* The places (block, position) of the chain that hold a record with an id.
SealedPlaces ==
    {pl \in (1..Len(chain)) \X (1..MaxTx + MaxChain) :
        /\ pl[2] <= Len(chain[pl[1]].transactions)
        /\ "id" \in DOMAIN chain[pl[1]].transactions[pl[2]]}

\* C37: no record is sealed twice: each record id occurs at one place of the
\* chain at most, and a record that is in a block is not in the pool.
C37_NoRecordSealedTwice ==
    /\ \A p \in SealedPlaces, q \in SealedPlaces :
           chain[p[1]].transactions[p[2]].id = chain[q[1]].transactions[q[2]].id
               => p = q
    /\ \A p \in SealedPlaces, i \in 1..Len(pending_transactions) :
           "id" \in DOMAIN pending_transactions[i] =>
               pending_transactions[i].id # chain[p[1]].transactions[p[2]].id

\* C37 witness: two mined blocks that both carry records with ids, the second
\* next to a reward record, while a further record waits in the pool.
C37_Witness ==
    /\ Len(chain) = 3
    /\ \E p \in SealedPlaces : p[1] = 2
    /\ \E p \in SealedPlaces : p[1] = 3
    /\ \E i \in 1..Len(pending_transactions) : "id" \in DOMAIN pending_transactions[i]
    /\ \E r \in recorded : "type" \in DOMAIN r /\ \E p \in SealedPlaces :
           chain[p[1]].transactions[p[2]] = r

\* The envelopes the dispatch loop has published itself: the replies of the
\* protocol handler, which carry the id of the envelope they answer.
ProtocolReplies ==
    {i \in 1..Len(enqueued) : enqueued[i].correlation_id # NoCorrelation}

\* C38: the dispatch loop comes to rest after the external publishes, because
\* an envelope the protocol handler has generated does not itself trigger a
\* reply: no envelope answers a protocol reply.
C38_RepliesTriggerNoReplies ==
    \A i \in ProtocolReplies : \A j \in 1..Len(enqueued) :
        enqueued[j].correlation_id # enqueued[i].id

\* The RESPONSE envelopes the program itself has published in answer to a
\* request: those of the broker's protocol handler ("received") and those of
\* a MessageHandler ("processed").
Answers ==
    {i \in 1..Len(enqueued) :
        /\ enqueued[i].type = "RESPONSE"
        /\ HasKey(enqueued[i].content, "status")}

\* C39: a REQUEST envelope is answered by one RESPONSE envelope at most, also
\* when the recipient's handle_message is subscribed to the recipient's topic.
C39_OneResponsePerRequest ==
    \A i \in Answers, j \in Answers :
        enqueued[i].correlation_id = enqueued[j].correlation_id => i = j

====
